---- MODULE Spec2Model ----
(***************************************************************************)
(* A model of nvelope's request decoder (decode.go) and of its error      *)
(* annotation helpers.  GenerateDecoder compiles a model type into a set  *)
(* of fillers once; the generated function then runs once per request and *)
(* fills a fresh model from the body, the path, the headers, the URL      *)
(* query, the form body, the buffered deep objects and the cookies.       *)
(*                                                                         *)
(* Strings of the request (parameter names, keys, values) are sequences   *)
(* of one-character strings, so that the regular expression, the splits   *)
(* and the number parser are computed character by character.             *)
(***************************************************************************)
EXTENDS Integers, Sequences, FiniteSets, TLC

VARIABLES
    typ,          \* the model type being compiled: an index into ModelTypes
    options,      \* the eigo options GenerateDecoder was called with
    binder,       \* the compiled fillers (or the compile error)
    runs,         \* one record per resolver run: the closure's local variables
    deepObjects,  \* the deep-object accumulation map of each run
    chain,        \* an error value and the code it was last annotated with
    dw,           \* a DeferredWriter
    tw            \* the http.ResponseWriter under the DeferredWriter

vars == <<typ, options, binder, runs, deepObjects, chain, dw, tw>>

-----------------------------------------------------------------------------
(* Bounds of the model *)

\* the number of resolver runs that may execute concurrently
MaxRuns == 2

\* the largest number of parameters (URL query keys plus form keys) of a request
MaxParams == 2

\* the largest number of layers (wrappers and annotations) of an error value
MaxLayers == 4

\* the largest number of bytes written to a deferred writer
MaxBody == 3

-----------------------------------------------------------------------------
(* Character strings *)

Str7 == <<"7">>
Str8 == <<"8">>
StrX == <<"x">>
Empty == << >>

Digits == <<"0", "1", "2", "3", "4", "5", "6", "7", "8", "9">>

IsDigit(c) == \E d \in 1..10 : Digits[d] = c

DigitVal(c) == (CHOOSE d \in 1..10 : Digits[d] = c) - 1

RECURSIVE ParseDigits(_)
ParseDigits(s) ==
    IF Len(s) = 0 THEN 0
    ELSE 10 * ParseDigits(SubSeq(s, 1, Len(s) - 1)) + DigitVal(s[Len(s)])

\* the first index >= i of s at which the string d starts, 0 when there is none
RECURSIVE IndexFrom(_, _, _)
IndexFrom(s, d, i) ==
    IF i + Len(d) - 1 > Len(s) THEN 0
    ELSE IF SubSeq(s, i, i + Len(d) - 1) = d THEN i
    ELSE IndexFrom(s, d, i + 1)

\* a faulty Split: the string is split at the first separator only
SplitOnce(s, d) ==
    IF IndexFrom(s, d, 1) = 0 THEN <<s>>
    ELSE <<SubSeq(s, 1, IndexFrom(s, d, 1) - 1),
           SubSeq(s, IndexFrom(s, d, 1) + Len(d), Len(s))>>

\* strings.Split(s, d) for a non-empty separator d
RECURSIVE Split(_, _)
Split(s, d) ==
    LET p == IndexFrom(s, d, 1)
    IN IF p = 0 THEN <<s>>
       ELSE <<SubSeq(s, 1, p - 1)>> \o Split(SubSeq(s, p + Len(d), Len(s)), d)

\* strings.SplitN(s, d, 2)
SplitN2(s, d) ==
    LET p == IndexFrom(s, d, 1)
    IN IF p = 0 THEN <<s>>
       ELSE <<SubSeq(s, 1, p - 1), SubSeq(s, p + Len(d), Len(s))>>

\* deepObjectRE.FindStringSubmatch(key) for ^([^\[]+)\[([^\]]+)\]$ :
\* <<key, root, member>> on a match and the empty sequence otherwise.
\* Group 1 holds no "[", so the bracket after it is the first "[" of the key.
deepObjectRE(key) ==
    LET p == IndexFrom(key, <<"[">>, 1)
        n == Len(key)
    IN IF /\ p >= 2
          /\ n >= p + 2
          /\ key[n] = "]"
          /\ \A j \in (p + 1)..(n - 1) : key[j] # "]"
       THEN <<key, SubSeq(key, 1, p - 1), SubSeq(key, p + 1, n - 1)>>
       ELSE << >>

-----------------------------------------------------------------------------
(* Errors.  An error is the chain of its wrappers, outermost first; nil is  *)
(* the empty chain.  Every layer has the same fields: its kind k, the       *)
(* return code (returnCode layers), and the context the message carries:    *)
(* source kind, parameter name, field name and the offending text.          *)

NoError == << >>

StatusBadRequest == 400

StatusInternalServerError == 500

Layer(k, code, src, name, field, text) ==
    [k |-> k, code |-> code, src |-> src, name |-> name, field |-> field, text |-> text]

\* errors.New / errors.Errorf
Errorf(src, name, field, text) == <<Layer("errorf", 0, src, name, field, text)>>

\* errors.Wrap / errors.Wrapf: nil stays nil
Wrapf(err, src, name, field) ==
    IF err = NoError THEN NoError
    ELSE <<Layer("wrap", 0, src, name, field, Empty)>> \o err

\* ReturnCode(err, code)
ReturnCode(err, code) ==
    IF err = NoError THEN NoError
    ELSE <<Layer("returnCode", code, "", Empty, Empty, Empty)>> \o err

\* a faulty GetReturnCode: the error itself is looked at, not what it wraps
GetReturnCodeUnwrapped(err) ==
    IF Len(err) > 0 /\ Head(err).k = "returnCode" THEN Head(err).code
    ELSE StatusInternalServerError

\* GetReturnCode(err): errors.As finds the outermost returnCode of the chain
RECURSIVE GetReturnCode(_)
GetReturnCode(err) ==
    IF Len(err) = 0 THEN StatusInternalServerError
    ELSE IF Head(err).k = "returnCode" THEN Head(err).code
    ELSE GetReturnCode(Tail(err))

\* the innermost layer of a non-nil error: the failure itself
Cause(err) == err[Len(err)]

-----------------------------------------------------------------------------
(* Tags.  A field's tag, as reflectutils' Tag.Fill leaves it in the tags    *)
(* struct, is a record; ExplodeP and Delimiter are sequences of at most one *)
(* element (empty: the tag does not set them).                              *)

Comma == <<",">>

\* the delimiters map: symbolic names and what they stand for
delimiters ==
    (<<"c", "o", "m", "m", "a">> :> <<",">>) @@
    (<<"p", "i", "p", "e">> :> <<"|">>) @@
    (<<"s", "p", "a", "c", "e">> :> <<" ">>)

\* a tag that sets only its base and its name
Tag(base, name) ==
    [Base |-> base, Name |-> name, ExplodeP |-> << >>, Delimiter |-> << >>,
     Form |-> FALSE, FormOnly |-> FALSE, Content |-> "", DeepObject |-> FALSE,
     FillErr |-> FALSE]

\* a faulty parseTag: a symbolic delimiter name is not replaced
parseTagLiteral(fill) ==
    LET d0 == IF fill.Delimiter = << >> THEN Comma ELSE fill.Delimiter[1]
        ex == IF fill.ExplodeP # << >> THEN fill.ExplodeP[1]
              ELSE fill.Base \in {"query", "header"}
    IN [Base |-> fill.Base, Name |-> fill.Name, Explode |-> ex, Delimiter |-> d0,
        Form |-> fill.Form, FormOnly |-> fill.FormOnly, Content |-> fill.Content,
        DeepObject |-> fill.DeepObject,
        Err |-> IF fill.FillErr THEN Errorf("compile", fill.Name, Empty, <<"tag">>)
                ELSE NoError]

\* lines 1054-1069: the tag as Tag.Fill left it, the delimiter's symbolic name
\* replaced and Explode set
parseTag(fill) ==
    LET d0 == IF fill.Delimiter = << >> THEN Comma ELSE fill.Delimiter[1]
        d1 == IF d0 \in DOMAIN delimiters THEN delimiters[d0] ELSE d0
        ex == IF fill.ExplodeP # << >> THEN fill.ExplodeP[1]
              ELSE fill.Base \in {"query", "header"}
    IN [Base |-> fill.Base, Name |-> fill.Name, Explode |-> ex, Delimiter |-> d1,
        Form |-> fill.Form, FormOnly |-> fill.FormOnly, Content |-> fill.Content,
        DeepObject |-> fill.DeepObject,
        Err |-> IF fill.FillErr THEN Errorf("compile", fill.Name, Empty, <<"tag">>)
                ELSE NoError]

WithoutExplode(tags) == [tags EXCEPT !.Explode = FALSE]

WithoutContent(tags) == [tags EXCEPT !.Content = ""]

WithoutDeepObject(tags) == [tags EXCEPT !.DeepObject = FALSE]

-----------------------------------------------------------------------------
(* Go types of the fields, by name: reflect's Kind, Elem and Key.           *)

Kind(t) ==
    CASE t = "int" -> "int"
      [] t = "string" -> "string"
      [] t \in {"int8", "int16", "uint8", "uint16", "bool"} -> t
      [] t \in {"*int8", "*int16", "*uint8", "*uint16", "*bool", "*string"} -> "ptr"
      [] t = "*int" -> "ptr"
      [] t = "[]int" -> "slice"
      [] t = "[2]int" -> "array"
      [] t = "map[string]int" -> "map"
      [] t = "map[string]string" -> "map"
      [] t = "*map[string]int" -> "ptr"
      [] t = "chan int" -> "chan"
      [] t = "Pair" -> "struct"
      [] t = "Dup" -> "struct"
      [] t = "Nest" -> "struct"
      [] t = "Ex" -> "struct"
      [] t = "map[string][]int" -> "map"
      [] t \in {"*Pair", "*[]int"} -> "ptr"
      [] t = "body" -> "struct"

Elem(t) ==
    CASE t = "*int" -> "int"
      [] t = "map[string][]int" -> "[]int"
      [] t = "*Pair" -> "Pair"
      [] t = "*[]int" -> "[]int"
      [] t = "*int8" -> "int8"
      [] t = "*int16" -> "int16"
      [] t = "*uint8" -> "uint8"
      [] t = "*uint16" -> "uint16"
      [] t = "*bool" -> "bool"
      [] t = "*string" -> "string"
      [] t = "[]int" -> "int"
      [] t = "[2]int" -> "int"
      [] t = "map[string]int" -> "int"
      [] t = "map[string]string" -> "string"
      [] t = "*map[string]int" -> "map[string]int"
      [] t = "chan int" -> "int"

Key(t) ==
    CASE t = "map[string]int" -> "string"
      [] t = "map[string][]int" -> "string"
      [] t = "map[string]string" -> "string"

\* reflect's Len of an array type
ArrayLen(t) == CASE t = "[2]int" -> 2

Min(S) == CHOOSE x \in S : \A y \in S : x <= y

Max(S) == CHOOSE x \in S : \A y \in S : x >= y

\* a struct field with a tag, and one without
Field(fname, type, fill) == [fname |-> fname, tagged |-> TRUE, fill |-> fill, type |-> type]

Untagged(fname, type) ==
    [fname |-> fname, tagged |-> FALSE, fill |-> Tag("", Empty), type |-> type]

\* The fields of a struct type that is a field's type.  A member's tag names
\* the member: the name is kept in the tag's Name.
\*   Pair: struct { A int `nvelope:"a"`; B int `nvelope:"b"` }
\*   Dup:  struct { A int `nvelope:"a"`; B int `nvelope:"a"` }
\*   Nest: struct { A int `nvelope:"a"`
\*                  M map[string]int `nvelope:"m,deepObject=true"` }
\*   Ex:   struct { A []int `nvelope:"a,explode=true"` }
StructFields(t) ==
    CASE t = "Pair" -> << Field(<<"A">>, "int", Tag("", <<"a">>)),
                          Field(<<"B">>, "int", Tag("", <<"b">>)) >>
      [] t = "Dup" -> << Field(<<"A">>, "int", Tag("", <<"a">>)),
                         Field(<<"B">>, "int", Tag("", <<"a">>)) >>
      [] t = "Nest" -> << Field(<<"A">>, "int", Tag("", <<"a">>)),
                          Field(<<"M">>, "map[string]int",
                                [Tag("", <<"m">>) EXCEPT !.DeepObject = TRUE]) >>
      [] t = "Ex" -> << Field(<<"A">>, "[]int",
                              [Tag("", <<"a">>) EXCEPT !.ExplodeP = <<TRUE>>]) >>
      [] OTHER -> << >>

\* lines 566-571: the key of a member in targets is the name its tag gives,
\* else the field's name
targetName(f) == IF f.fill.Name # Empty THEN f.fill.Name ELSE f.fname

\* the members the struct's unpacker has a target for, by name, and their types
MembersOf(fs) ==
    [n \in {targetName(fs[j]) : j \in {i \in DOMAIN fs : fs[i].fill.Base # "-"}} |->
        fs[Max({j \in DOMAIN fs : targetName(fs[j]) = n})].type]

Members(t) == MembersOf(StructFields(t))

\* a Go value: integers and strings are themselves; a slice, a map or a
\* pointer is nil or holds its elements
NilSlice == [nil |-> TRUE, elems |-> << >>]
NilMap == [nil |-> TRUE, m |-> << >>]

RECURSIVE Zero(_)

\* the zero value of a struct whose members have the types ms
ZeroStruct(ms) == [k \in DOMAIN ms |-> Zero(ms[k])]

\* the zero value of the type t, of kind k
ZeroOfKind(k, t) ==
    CASE k \in {"int", "int8", "int16", "uint8", "uint16"} -> 0
      [] k = "bool" -> FALSE
      [] k = "string" -> Empty
      [] k = "slice" -> NilSlice
      [] k = "map" -> NilMap
      [] k = "ptr" -> [nil |-> TRUE, p |-> Zero(Elem(t))]
      [] k = "array" -> [i \in 1..ArrayLen(t) |-> Zero(Elem(t))]
      [] t \in {"Pair", "Dup", "Nest", "Ex"} -> ZeroStruct(Members(t))
      [] OTHER -> "zero"

Zero(t) == ZeroOfKind(Kind(t), t)

-----------------------------------------------------------------------------
(* The unpacker factory.  getUnpacker returns the capability it builds      *)
(* ("single", "multi" or "deepObject") or an error; the closures it builds  *)
(* are the operators unpackSingle, unpackMulti and unpackDeepObject below.  *)

Unpack(cap) == [err |-> NoError, cap |-> cap]

NoUnpack(text) == [err |-> Errorf("compile", Empty, Empty, text), cap |-> ""]

builtinContent == {"application/json", "application/xml", "application/yaml", "text/yaml"}

\* the first of the unpackers that failed to build, else the capability
OrElse(u, rest) == IF u.err # NoError THEN u ELSE rest

\* lines 782-787: the kinds decoded by a string setter (of these, the floats,
\* the complex numbers and the integers of 32 and 64 bits are not modelled)
ScalarKinds == {"int", "int8", "int16", "uint8", "uint16", "bool", "string"}

RECURSIVE getUnpacker(_, _, _, _)
RECURSIVE contentUnpacker(_, _, _, _)
RECURSIVE generateStructUnpacker(_, _, _, _, _, _)

\* a faulty innerTags: a member's explode is kept everywhere
innerTagsKeep(tags, outerTags) == tags

\* lines 577-579: the tags a struct member is decoded with: explode is kept
\* only inside a deep object
innerTags(tags, outerTags) == [tags EXCEPT !.Explode = outerTags.DeepObject /\ @]

\* the member of the struct t that targets holds under the name k: the last
\* one of that name
MemberField(t, k) ==
    StructFields(t)[Max({j \in DOMAIN StructFields(t) :
                           targetName(StructFields(t)[j]) = k})]

\* the tags the member named k of the struct t is decoded with
memberTags(t, k, outerTags) == innerTags(parseTag(MemberField(t, k).fill), outerTags)

\* lines 561-593: the callback of the walk for the member f, whose tag parsed
\* into tags; rest is what the members after it give
structField(f, tags, base, outerTags, opts, targets, rest) ==
    IF tags.Err # NoError THEN [err |-> tags.Err, cap |-> ""]
    ELSE IF targetName(f) \in targets
    THEN NoUnpack(<<"Only one field can be filled with the same name">>)
    ELSE IF tags.DeepObject
    THEN NoUnpack(<<"deepObject=true is not allowed on fields inside a struct">>)
    ELSE OrElse(getUnpacker(f.type, base, innerTags(tags, outerTags), opts), rest)

\* the walk over the members of the struct from the j-th on, targets holding
\* the names of the members before it: the first member that fails fails the
\* struct's unpacker, and a member tagged "-" is passed over
generateStructUnpacker(t, base, outerTags, opts, j, targets) ==
    IF j > Len(StructFields(t)) THEN Unpack("struct")
    ELSE IF StructFields(t)[j].fill.Base = "-"
    THEN generateStructUnpacker(t, base, outerTags, opts, j + 1, targets)
    ELSE structField(StructFields(t)[j], parseTag(StructFields(t)[j].fill), base,
                     outerTags, opts, targets,
                     generateStructUnpacker(t, base, outerTags, opts, j + 1,
                         targets \cup {targetName(StructFields(t)[j])}))

contentUnpacker(t, base, tags, opts) ==
    IF tags.Content \notin opts.decoders /\ tags.Content \notin builtinContent
    THEN NoUnpack(<<"no decoder provided for content type">>)
    ELSE IF tags.Explode /\ base \in {"query", "header"} /\ Kind(t) \in {"map", "slice"}
    THEN OrElse(getUnpacker(Elem(t), base, WithoutExplode(tags), opts),
                IF Kind(t) = "slice" THEN Unpack("multi")
                ELSE OrElse(getUnpacker(Key(t), base,
                                WithoutDeepObject(WithoutContent(WithoutExplode(tags))),
                                opts),
                            Unpack("multi")))
    ELSE Unpack("single")

getUnpacker(t, base, tags, opts) ==
    IF tags.Content # "" THEN contentUnpacker(t, base, tags, opts)
    ELSE CASE Kind(t) = "ptr" -> getUnpacker(Elem(t), base, tags, opts)
           [] Kind(t) \in ScalarKinds -> Unpack("single")
           [] Kind(t) \in {"slice", "array"} ->
                IF base \in {"cookie", "path"} /\ tags.Delimiter # Comma
                THEN NoUnpack(<<"delimiter setting is only allowed for 'query' parameters">>)
                ELSE IF base \in {"cookie", "path"} /\ tags.Explode
                THEN NoUnpack(<<"explode=true not supported for cookies & path parameters">>)
                ELSE IF tags.DeepObject
                THEN NoUnpack(<<"deepObject=true not supported for slices">>)
                ELSE OrElse(getUnpacker(Elem(t), base, WithoutExplode(tags), opts),
                            IF base \in {"query", "header"} /\ tags.Explode
                            THEN Unpack("multi")
                            ELSE Unpack("single"))
           [] Kind(t) = "map" ->
                IF base \in {"cookie", "path"} /\ tags.Delimiter # Comma
                THEN NoUnpack(<<"delimiter setting is only allowed for 'query' parameters">>)
                ELSE OrElse(getUnpacker(Key(t), base,
                                WithoutDeepObject(WithoutExplode(tags)), opts),
                     OrElse(getUnpacker(Elem(t), base,
                                IF tags.DeepObject THEN WithoutDeepObject(tags)
                                ELSE WithoutExplode(tags), opts),
                            IF tags.DeepObject
                            THEN IF base # "query"
                                 THEN NoUnpack(<<"deepObject=true not supported for">>)
                                 ELSE Unpack("deepObject")
                            ELSE IF base \in {"query", "header"} /\ tags.Explode
                            THEN Unpack("multi")
                            ELSE Unpack("single")))
           [] Kind(t) = "struct" ->
                OrElse(generateStructUnpacker(t, base, tags, opts, 1, {}),
                       IF tags.DeepObject
                       THEN IF base # "query"
                            THEN NoUnpack(<<"deepObject=true not supported for">>)
                            ELSE Unpack("deepObject")
                       ELSE IF base \in {"query", "header"} /\ tags.Explode
                       THEN Unpack("multi")
                       ELSE Unpack("single"))
           [] Kind(t) = "chan" -> NoUnpack(<<"does not implement UnmarshalText">>)

-----------------------------------------------------------------------------
(* The closures of the unpackers.  Each returns the error and the value the *)
(* target holds afterwards (old: the value it held before).                 *)

\* the string setter of an integer field: an optional sign and decimal digits
ParseInt(value) ==
    LET signed == Len(value) > 0 /\ value[1] \in {"-", "+"}
        body == IF signed THEN Tail(value) ELSE value
    IN IF Len(body) > 0 /\ \A i \in 1..Len(body) : IsDigit(body[i])
       THEN [ok |-> TRUE,
             v |-> IF signed /\ value[1] = "-" THEN 0 - ParseDigits(body)
                   ELSE ParseDigits(body)]
       ELSE [ok |-> FALSE, v |-> 0]

\* reflect's Type.Bits of the sized integer kinds
Bits(kind) == IF kind \in {"int8", "uint8"} THEN 8 ELSE 16

\* a faulty setter of the sized integers: the least signed value is refused
ParseBitsSymmetric(value, kind) ==
    LET p == ParseInt(value)
        top == 2 ^ (Bits(kind) - 1)
    IN IF kind \in {"int8", "int16"}
       THEN IF p.ok /\ p.v > 0 - top /\ p.v <= top - 1 THEN p
            ELSE [ok |-> FALSE, v |-> 0]
       ELSE IF p.ok /\ value[1] \notin {"-", "+"} /\ p.v <= 2 * top - 1 THEN p
            ELSE [ok |-> FALSE, v |-> 0]

\* the string setter of a sized integer field (line 788): the digits are
\* parsed to the width of the kind, a value out of its range is an error, and
\* an unsigned field takes no sign
ParseBits(value, kind) ==
    LET p == ParseInt(value)
        top == 2 ^ (Bits(kind) - 1)
    IN IF kind \in {"int8", "int16"}
       THEN IF p.ok /\ p.v >= 0 - top /\ p.v <= top - 1 THEN p
            ELSE [ok |-> FALSE, v |-> 0]
       ELSE IF p.ok /\ value[1] \notin {"-", "+"} /\ p.v <= 2 * top - 1 THEN p
            ELSE [ok |-> FALSE, v |-> 0]

StrTrue == <<"t", "r", "u", "e">>

StrFalse == <<"f", "a", "l", "s", "e">>

\* the string setter of a bool field (line 788): the spellings of true and
\* of false, anything else is an error
ParseBool(value) ==
    IF value \in {<<"1">>, <<"t">>, <<"T">>, StrTrue, <<"T", "R", "U", "E">>,
                  <<"T", "r", "u", "e">>}
    THEN [ok |-> TRUE, v |-> TRUE]
    ELSE IF value \in {<<"0">>, <<"f">>, <<"F">>, StrFalse, <<"F", "A", "L", "S", "E">>,
                       <<"F", "a", "l", "s", "e">>}
    THEN [ok |-> TRUE, v |-> FALSE]
    ELSE [ok |-> FALSE, v |-> FALSE]

resplitOnEquals(values) ==
    [i \in 1..(2 * Len(values)) |->
        LET a == SplitN2(values[(i + 1) \div 2], <<"=">>)
        IN IF i % 2 = 1 THEN a[1]
           ELSE IF Len(a) = 2 THEN a[2] ELSE Empty]

Result(err, val) == [err |-> err, val |-> val]

\* p := reflect.New(elem); target.Set(p): the pointer is set whatever the
\* decoding of the pointee returns
Pointed(r) == Result(r.err, [nil |-> FALSE, p |-> r.val])

\* the string setter's result for an integer field
intSet(r, from, name, old, value) ==
    IF r.ok THEN Result(NoError, r.v)
    ELSE Result(Wrapf(Errorf(from, name, Empty, value), from, name, Empty), old)

\* sliceUnpack, given the results r of decoding the values one by one: the
\* first error ends the loop and the field is not set
sliceResult(old, r) ==
    LET bad == {i \in DOMAIN r : r[i].err # NoError}
    IN IF bad # {} THEN Result(r[Min(bad)].err, old)
       ELSE Result(NoError, [nil |-> FALSE, elems |-> [i \in DOMAIN r |-> r[i].val]])

\* arrayUnpack, given the results r of decoding the values one by one into the
\* slots of the array: the slots before the first error are written, and when
\* there is none the slots after the last value are set to zero
arrayResult(old, r, zero) ==
    LET bad == {i \in DOMAIN r : r[i].err # NoError}
    IN IF bad # {}
       THEN Result(r[Min(bad)].err,
                   [i \in DOMAIN old |-> IF i <= Min(bad) THEN r[i].val ELSE old[i]])
       ELSE Result(NoError,
                   [i \in DOMAIN old |-> IF i <= Len(r) THEN r[i].val ELSE zero])

\* a faulty mapResult: an earlier pair is kept over a later one with its key
mapResultFirst(old, kr, vr) ==
    LET bad == {j \in DOMAIN kr : kr[j].err # NoError \/ vr[j].err # NoError}
        keys == {kr[j].val : j \in DOMAIN kr}
    IN IF bad # {}
       THEN Result(IF kr[Min(bad)].err # NoError THEN kr[Min(bad)].err
                   ELSE vr[Min(bad)].err, old)
       ELSE Result(NoError,
                   [nil |-> FALSE,
                    m |-> [k \in keys |->
                              vr[Min({j \in DOMAIN kr : kr[j].val = k})].val]])

\* mapUnpack, given the results of decoding the keys (kr) and the values (vr)
\* pair by pair: a later pair replaces an earlier one with the same key
mapResult(old, kr, vr) ==
    LET bad == {j \in DOMAIN kr : kr[j].err # NoError \/ vr[j].err # NoError}
        keys == {kr[j].val : j \in DOMAIN kr}
    IN IF bad # {}
       THEN Result(IF kr[Min(bad)].err # NoError THEN kr[Min(bad)].err
                   ELSE vr[Min(bad)].err, old)
       ELSE Result(NoError,
                   [nil |-> FALSE,
                    m |-> [k \in keys |->
                              vr[Max({j \in DOMAIN kr : kr[j].val = k})].val]])

\* a struct member k has been decoded with result r: an error is wrapped with
\* the member's name, else the member holds the value
memberSet(cur, k, r, from) ==
    IF r.err # NoError THEN Result(Wrapf(r.err, from, k, k), cur)
    ELSE Result(NoError, [cur EXCEPT ![k] = r.val])

noMember(from, k, cur) == Result(Errorf(from, k, Empty, <<"No struct member">>), cur)

RECURSIVE unpackSingle(_, _, _, _, _, _, _, _)
RECURSIVE sliceUnpack(_, _, _, _, _, _, _, _)
RECURSIVE arrayUnpack(_, _, _, _, _, _, _, _)
RECURSIVE mapUnpack(_, _, _, _, _, _, _, _)
RECURSIVE structMulti(_, _, _, _, _, _, _, _)
RECURSIVE structNext(_, _, _, _, _, _, _, _)

\* the multi closure of a struct (lines 602-621): values are alternating
\* member names and values, taken from the i-th on; cur is the struct so far
structMulti(t, base, tags, opts, from, cur, values, i) ==
    IF i > Len(values) THEN Result(NoError, cur)
    ELSE IF values[i] \notin DOMAIN Members(t)
    THEN IF opts.rejectUnknownQueryParameters THEN noMember(from, values[i], cur)
         ELSE structMulti(t, base, tags, opts, from, cur, values, i + 2)
    ELSE structNext(t, base, tags, opts, from, values, i,
             memberSet(cur, values[i],
                 unpackSingle(Members(t)[values[i]], base, memberTags(t, values[i], tags),
                              opts, values[i], from, cur[values[i]],
                              IF i + 1 <= Len(values) THEN values[i + 1] ELSE Empty),
                 from))

structNext(t, base, tags, opts, from, values, i, r) ==
    IF r.err # NoError THEN r
    ELSE structMulti(t, base, tags, opts, from, r.val, values, i + 2)

unpackSingle(t, base, tags, opts, name, from, old, value) ==
    CASE Kind(t) = "int" -> intSet(ParseInt(value), from, name, old, value)
      [] Kind(t) \in {"int8", "int16", "uint8", "uint16"} ->
            intSet(ParseBits(value, Kind(t)), from, name, old, value)
      [] Kind(t) = "bool" -> intSet(ParseBool(value), from, name, old, value)
      [] Kind(t) = "string" -> Result(NoError, value)
      [] Kind(t) = "ptr" ->
            Pointed(unpackSingle(Elem(t), base, tags, opts, name, from,
                                 Zero(Elem(t)), value))
      [] Kind(t) = "slice" ->
            sliceUnpack(t, base, tags, opts, name, from, old,
                        Split(value, tags.Delimiter))
      [] Kind(t) = "array" ->
            arrayUnpack(t, base, tags, opts, name, from, old,
                        Split(value, tags.Delimiter))
      [] Kind(t) = "map" ->
            mapUnpack(t, base, tags, opts, name, from, old,
                      Split(value, tags.Delimiter))
      [] Kind(t) = "struct" ->
            structMulti(t, base, tags, opts, from, old,
                        Split(value, tags.Delimiter), 1)

\* a faulty sliceUnpack: the slice is made of the first value only
sliceUnpackFirst(t, base, tags, opts, name, from, old, values) ==
    sliceResult(old,
        [i \in 1..(IF Len(values) > 0 THEN 1 ELSE 0) |->
            unpackSingle(Elem(t), base, WithoutExplode(tags), opts, name, from,
                         Zero(Elem(t)), values[i])])

\* lines 677-691: a slice as long as values, each element decoded from its
\* value
sliceUnpack(t, base, tags, opts, name, from, old, values) ==
    sliceResult(old,
        [i \in 1..Len(values) |->
            unpackSingle(Elem(t), base, WithoutExplode(tags), opts, name, from,
                         Zero(Elem(t)), values[i])])

\* a faulty arrayUnpack: the values the array has no slot for are dropped
arrayUnpackTruncate(t, base, tags, opts, name, from, old, values) ==
    arrayResult(old,
        [i \in 1..Min({Len(values), ArrayLen(t)}) |->
            unpackSingle(Elem(t), base, WithoutExplode(tags), opts, name, from,
                         old[i], values[i])],
        Zero(Elem(t)))

\* lines 693-712: too many values are an error before any slot is written
arrayUnpack(t, base, tags, opts, name, from, old, values) ==
    IF Len(values) > ArrayLen(t)
    THEN Result(Errorf(from, name, Empty, <<"too many values for fixed length array">>),
                old)
    ELSE arrayResult(old,
            [i \in 1..Len(values) |->
                unpackSingle(Elem(t), base, WithoutExplode(tags), opts, name, from,
                             old[i], values[i])],
            Zero(Elem(t)))

mapUnpack(t, base, tags, opts, name, from, old, values) ==
    mapResult(old,
        [j \in 1..((Len(values) + 1) \div 2) |->
            unpackSingle(Key(t), base, WithoutDeepObject(WithoutExplode(tags)),
                         opts, name, from, Zero(Key(t)), values[2 * j - 1])],
        [j \in 1..((Len(values) + 1) \div 2) |->
            unpackSingle(Elem(t), base, WithoutExplode(tags), opts, name, from,
                         Zero(Elem(t)),
                         IF 2 * j <= Len(values) THEN values[2 * j] ELSE Empty)])

RECURSIVE unpackMulti(_, _, _, _, _, _, _, _)
unpackMulti(t, base, tags, opts, name, from, old, values) ==
    CASE Kind(t) = "ptr" ->
            Pointed(unpackMulti(Elem(t), base, tags, opts, name, from,
                                Zero(Elem(t)), values))
      [] Kind(t) = "slice" ->
            sliceUnpack(t, base, tags, opts, name, from, old, values)
      [] Kind(t) = "array" ->
            arrayUnpack(t, base, tags, opts, name, from, old, values)
      [] Kind(t) = "map" ->
            mapUnpack(t, base, tags, opts, name, from, old, resplitOnEquals(values))
      [] Kind(t) = "struct" ->
            structMulti(t, base, tags, opts, from, old, resplitOnEquals(values), 1)

\* The deepObject closure of a map ranges over a Go map, whose order is not
\* fixed: the result is the set of outcomes the orders can give, from the
\* results of decoding each member's key (kr) and values (vr).  An entry that
\* fails ends the loop with its error and the field is not set.
deepResult(old, kr, vr) ==
    LET ks == DOMAIN kr
        bad == {k \in ks : kr[k].err # NoError \/ vr[k].err # NoError}
        keys == {kr[k].val : k \in ks}
        picks == {c \in [keys -> ks] : \A d \in keys : kr[c[d]].val = d}
    IN IF bad # {}
       THEN {Result(IF kr[k].err # NoError THEN kr[k].err ELSE vr[k].err, old) :
                k \in bad}
       ELSE {Result(NoError,
                    [nil |-> FALSE, m |-> [d \in keys |-> vr[c[d]].val]]) :
                c \in picks}

\* the element of a deep object's member: all its values when the element's
\* unpacker is multi, else the first one ("" when there is none)
unpackElement(cap, t, base, etags, opts, name, values) ==
    IF cap = "multi"
    THEN unpackMulti(t, base, etags, opts, name, "query", Zero(t), values)
    ELSE unpackSingle(t, base, etags, opts, name, "query", Zero(t),
                      IF Len(values) > 0 THEN values[1] ELSE Empty)

\* The deepObject closure of a struct (lines 622-644) ranges over the Go map
\* too.  res holds the results of decoding the members the request names;
\* unknownKeys are the keys no member has, an error in strict mode.  The
\* members decoded before the first failure keep their values.
structDeepResult(old, res, unknownKeys, strict) ==
    LET bad == {k \in DOMAIN res : res[k].err # NoError}
                   \cup (IF strict THEN unknownKeys ELSE {})
        good == (DOMAIN res) \ bad
    IN IF bad = {}
       THEN {Result(NoError, [k \in DOMAIN old |->
                                 IF k \in good THEN res[k].val ELSE old[k]])}
       ELSE {Result(IF k \in unknownKeys
                    THEN Errorf("query", k, Empty, <<"No struct member">>)
                    ELSE Wrapf(res[k].err, "query", k, k),
                    [m \in DOMAIN old |-> IF m \in S THEN res[m].val ELSE old[m]]) :
                k \in bad, S \in SUBSET good}

\* a member of a struct deep object: its first value when the member's
\* unpacker is single (nothing is done when there is no value), else all
structMember(cap, t, base, mtags, opts, k, old, values) ==
    IF cap = "single"
    THEN IF Len(values) > 0
         THEN unpackSingle(t, base, mtags, opts, k, "query", old, values[1])
         ELSE Result(NoError, old)
    ELSE unpackMulti(t, base, mtags, opts, k, "query", old, values)

RECURSIVE unpackDeepObject(_, _, _, _, _, _, _)
unpackDeepObject(t, base, tags, opts, name, old, mapValues) ==
    CASE Kind(t) = "ptr" ->
            {Pointed(r) :
                r \in unpackDeepObject(Elem(t), base, tags, opts, name,
                                       Zero(Elem(t)), mapValues)}
      [] Kind(t) = "map" ->
            deepResult(old,
                [k \in DOMAIN mapValues |->
                    unpackSingle(Key(t), base, WithoutDeepObject(WithoutExplode(tags)),
                                 opts, name, "query", Zero(Key(t)), k)],
                [k \in DOMAIN mapValues |->
                    unpackElement(
                        getUnpacker(Elem(t), base, WithoutDeepObject(tags), opts).cap,
                        Elem(t), base, WithoutDeepObject(tags), opts, name,
                        mapValues[k])])
      [] Kind(t) = "struct" ->
            structDeepResult(old,
                [k \in (DOMAIN mapValues) \cap (DOMAIN Members(t)) |->
                    structMember(
                        getUnpacker(Members(t)[k], base, memberTags(t, k, tags), opts).cap,
                        Members(t)[k], base, memberTags(t, k, tags), opts, k, old[k],
                        mapValues[k])],
                (DOMAIN mapValues) \ (DOMAIN Members(t)),
                opts.rejectUnknownQueryParameters)

-----------------------------------------------------------------------------
(* Compilation: GenerateDecoder walks the fields of the model type and      *)
(* registers one filler per tagged field.  A filler is the index of its     *)
(* field; queryFillers and the other maps are functions from parameter      *)
(* names to fillers.  The walk's callback returns false after a model field *)
(* and after an error, which only keeps the walk out of that field's own    *)
(* members: the remaining fields are still visited.                         *)

NoFillers ==
    [returnError |-> NoError,
     varsFillers |-> << >>, headerFillers |-> << >>, cookieFillers |-> << >>,
     bodyFillers |-> << >>,
     queryFillers |-> << >>, queryFillersForm |-> << >>,
     deepObjectFillers |-> << >>, deepObjectFillersForm |-> << >>]

Put(m, k, v) == (k :> v) @@ m

Delete(m, k) == [x \in (DOMAIN m) \ {k} |-> m[x]]

\* the name a field's parameter goes by
ParamName(f) == IF f.fill.Name # Empty THEN f.fill.Name ELSE f.fname

\* lines 357-383: a query field is registered by capability
registerByCap(b, name, j, cap) ==
    IF cap = "deepObject"
    THEN [b EXCEPT !.deepObjectFillers = Put(@, name, j)]
    ELSE [b EXCEPT !.queryFillers = Put(@, name, j)]

\* a faulty registerForm: the formOnly field stays in the query bucket
registerFormKeep(b, tags, name, cap) ==
    IF ~(tags.Form \/ tags.FormOnly) THEN b
    ELSE IF cap = "deepObject"
    THEN [b EXCEPT !.deepObjectFillersForm = Put(@, name, b.deepObjectFillers[name])]
    ELSE [b EXCEPT !.queryFillersForm = Put(@, name, b.queryFillers[name])]

\* lines 384-396: a form or formOnly field is copied to the form bucket and,
\* when formOnly, removed from the query bucket
registerForm(b, tags, name, cap) ==
    IF ~(tags.Form \/ tags.FormOnly) THEN b
    ELSE IF cap = "deepObject"
    THEN [b EXCEPT !.deepObjectFillersForm = Put(@, name, b.deepObjectFillers[name]),
                   !.deepObjectFillers =
                       IF tags.FormOnly THEN Delete(@, name) ELSE @]
    ELSE [b EXCEPT !.queryFillersForm = Put(@, name, b.queryFillers[name]),
                   !.queryFillers = IF tags.FormOnly THEN Delete(@, name) ELSE @]

registerQuery(b, tags, name, j, cap) ==
    registerForm(registerByCap(b, name, j, cap), tags, name, cap)

\* a registerModel that would refuse a second model field
registerModelOnce(b, j) ==
    IF Len(b.bodyFillers) # 0
    THEN [b EXCEPT !.returnError = Errorf("compile", Empty, Empty, <<"model">>)]
    ELSE [b EXCEPT !.bodyFillers = Append(@, j)]

\* lines 294-311, a model field: its body filler is appended to bodyFillers
registerModel(b, j) == [b EXCEPT !.bodyFillers = Append(@, j)]

\* lines 313-412: the field's unpacker is built and its filler registered
registerField(b, j, tags, name, unpacker) ==
    IF unpacker.err # NoError THEN [b EXCEPT !.returnError = unpacker.err]
    ELSE CASE tags.Base = "path" -> [b EXCEPT !.varsFillers = Append(@, j)]
           [] tags.Base = "header" -> [b EXCEPT !.headerFillers = Append(@, j)]
           [] tags.Base = "query" -> registerQuery(b, tags, name, j, unpacker.cap)
           [] tags.Base = "cookie" -> [b EXCEPT !.cookieFillers = Append(@, j)]
           [] OTHER -> b

\* lines 285-312: the tag is looked up and parsed
walkTagged(b, f, j, tags, opts) ==
    IF tags.Err # NoError THEN [b EXCEPT !.returnError = tags.Err]
    ELSE IF tags.Base = "model" THEN registerModel(b, j)
    ELSE registerField(b, j, tags, ParamName(f),
                       getUnpacker(f.type, tags.Base, tags, opts))

\* the callback of WalkStructElements for field j of the type
walkField(b, fields, j, opts) ==
    IF ~fields[j].tagged THEN b
    ELSE walkTagged(b, fields[j], j, parseTag(fields[j].fill), opts)

RECURSIVE walkFields(_, _, _, _)
walkFields(b, fields, j, opts) ==
    IF j > Len(fields) THEN b
    ELSE walkFields(walkField(b, fields, j, opts), fields, j + 1, opts)

\* lines 415-451: what the walk leaves: "error" (no provider; the chain fails),
\* "skip" (no filler applies to the type) or "ok" with the fillers
provider(b, opts) ==
    IF b.returnError # NoError
    THEN [status |-> "error", err |-> b.returnError, fillers |-> NoFillers]
    ELSE IF /\ Len(b.varsFillers) = 0 /\ Len(b.headerFillers) = 0
            /\ Len(b.cookieFillers) = 0 /\ Len(b.bodyFillers) = 0
            /\ DOMAIN b.queryFillers = {} /\ DOMAIN b.queryFillersForm = {}
            /\ DOMAIN b.deepObjectFillers = {}
            /\ DOMAIN b.deepObjectFillersForm = {}
    THEN [status |-> "skip", err |-> NoError, fillers |-> NoFillers]
    ELSE IF Len(b.varsFillers) > 0 /\ opts.pathVarFunction # "valid"
    THEN [status |-> "error",
          err |-> Errorf("compile", Empty, Empty, <<"WithPathVarsFunction">>),
          fillers |-> NoFillers]
    ELSE [status |-> "ok", err |-> NoError, fillers |-> b]

GenerateDecoder(fields, opts) == provider(walkFields(NoFillers, fields, 1, opts), opts)

-----------------------------------------------------------------------------
(* The model types the binder is compiled for, and the options.             *)

NameP == <<"p">>
NameH == <<"H">>
NameK == <<"k">>
NameA == <<"a">>
NameB == <<"b">>
NameC == <<"c">>
NameM == <<"m">>
NameS == <<"s">>
NameZ == <<"z">>
KeyMA == <<"m", "[", "a", "]">>
KeyMB == <<"m", "[", "b", "]">>
KeyZA == <<"z", "[", "a", "]">>

Bracket(root, member) == root \o <<"[">> \o member \o <<"]">>

ModelTypes ==
    << \* 1: body, path, header and cookie
       << Field(<<"B">>, "body", Tag("model", Empty)),
          Field(<<"P">>, "int", Tag("path", NameP)),
          Field(<<"H">>, "int", Tag("header", NameH)),
          Field(<<"K">>, "int", Tag("cookie", NameK)) >>,
       \* 2: the struct of TestDecodeFormValues, and an untagged field
       << Field(<<"A">>, "int", Tag("query", NameA)),
          Field(<<"B">>, "int", [Tag("query", NameB) EXCEPT !.Form = TRUE]),
          Field(<<"C">>, "int", [Tag("query", NameC) EXCEPT !.FormOnly = TRUE]),
          Untagged(<<"U">>, "chan int") >>,
       \* 3: a deep object and an exploded slice that the form may supply
       << Field(<<"M">>, "map[string]int",
                [Tag("query", NameM) EXCEPT !.DeepObject = TRUE, !.Form = TRUE]),
          Field(<<"S">>, "[]int", [Tag("query", NameS) EXCEPT !.Form = TRUE]),
          Field(<<"K">>, "int", Tag("cookie", NameK)) >>,
       \* 4: a deep object of the form body only
       << Field(<<"M">>, "map[string]int",
                [Tag("query", NameM) EXCEPT !.DeepObject = TRUE, !.FormOnly = TRUE]),
          Field(<<"H">>, "int", Tag("header", NameH)) >>,
       \* 5: two model fields
       << Field(<<"B1">>, "body", Tag("model", Empty)),
          Field(<<"B2">>, "body", Tag("model", Empty)),
          Field(<<"H">>, "int", Tag("header", NameH)) >>,
       \* 6: a query parameter whose name is a bracket key of a deep object
       << Field(<<"A">>, "int", Tag("query", KeyMA)),
          Field(<<"M">>, "*map[string]int",
                [Tag("query", NameM) EXCEPT !.DeepObject = TRUE]) >>,
       \* 7: a field no unpacker can be built for
       << Field(<<"A">>, "int", Tag("query", NameA)),
          Field(<<"Ch">>, "chan int", Tag("query", NameC)) >>,
       \* 8: a struct as a deep object
       << Field(<<"M">>, "Pair", [Tag("query", NameM) EXCEPT !.DeepObject = TRUE]) >>,
       \* 9: fields of one source kind that resolve to the same name
       << Field(<<"A">>, "int", Tag("query", NameA)),
          Field(<<"B">>, "int", Tag("query", NameA)),
          Field(<<"H1">>, "int", Tag("header", NameH)),
          Field(<<"H2">>, "int", Tag("header", NameH)),
          Field(<<"K1">>, "int", Tag("cookie", NameK)),
          Field(<<"K2">>, "int", Tag("cookie", NameK)) >>,
       \* 10: a field tagged "-"
       << Field(<<"A">>, "int", Tag("query", NameA)),
          Field(<<"S">>, "int", Tag("-", Empty)) >>,
       \* 11: a field tagged "-" of a type no unpacker can be built for
       << Field(<<"A">>, "int", Tag("query", NameA)),
          Field(<<"Ch">>, "chan int", Tag("-", Empty)) >>,
       \* 12: two path variables
       << Field(<<"P">>, "int", Tag("path", NameP)),
          Field(<<"Q">>, "int", Tag("path", NameA)) >> >>

(* Model types of one field, for every combination of a field type, a base  *)
(* and the settings of a tag.  The type numbered Len(ModelTypes) + n is     *)
(* struct { F T `nvelope:"base,name=m,..."` }, the n-th combination.         *)

FieldGoTypes ==
    <<"int", "*int", "[]int", "[2]int", "map[string]int", "map[string]string",
      "Pair", "Dup", "Nest">>

FieldBases == <<"query", "header", "path", "cookie">>

\* explode is not set, or set to true or to false
FieldExplodes == << << >>, <<TRUE>>, <<FALSE>> >>

\* delimiter is not set, is one of the symbolic names, or is a literal
FieldDelimiters ==
    << << >>,
       << <<"c", "o", "m", "m", "a">> >>,
       << <<"p", "i", "p", "e">> >>,
       << <<"s", "p", "a", "c", "e">> >>,
       << <<";">> >> >>

FieldContents == <<"", "application/json">>

NumFieldTypes ==
    Len(FieldGoTypes) * Len(FieldBases) * Len(FieldExplodes) * Len(FieldDelimiters)
        * 2 * Len(FieldContents)

\* the choice the n-th combination makes among the radix values of a setting,
\* below being the number of combinations of the settings before it
Choice(n, below, radix) == (((n - 1) \div below) % radix) + 1

FieldType(n) ==
    Field(<<"F">>, FieldGoTypes[Choice(n, 1, 9)],
          [Tag(FieldBases[Choice(n, 9, 4)], NameM) EXCEPT
              !.ExplodeP = FieldExplodes[Choice(n, 36, 3)],
              !.Delimiter = FieldDelimiters[Choice(n, 108, 5)],
              !.DeepObject = (Choice(n, 540, 2) = 2),
              !.Content = FieldContents[Choice(n, 1080, 2)]])

FieldTypeIds == (Len(ModelTypes) + 1)..(Len(ModelTypes) + NumFieldTypes)

(* Model types of one scalar field, direct or behind a pointer, under each  *)
(* base (TestDecodeQuerySimpleParameters and its like): the type numbered   *)
(* Len(ModelTypes) + NumFieldTypes + n is struct { F T `nvelope:"base,      *)
(* name=m"` }.                                                               *)

ScalarGoTypes ==
    <<"int8", "int16", "uint8", "uint16", "bool", "string",
      "*int8", "*int16", "*uint8", "*uint16", "*bool", "*string">>

ScalarType(n) ==
    Field(<<"F">>, ScalarGoTypes[Choice(n, 1, Len(ScalarGoTypes))],
          Tag(FieldBases[Choice(n, Len(ScalarGoTypes), 4)], NameM))

ScalarTypeIds ==
    (Len(ModelTypes) + NumFieldTypes + 1)
        ..(Len(ModelTypes) + NumFieldTypes + (4 * Len(ScalarGoTypes)))

(* Model types of one field whose unpacker calls an unpacker that is not   *)
(* single, or hands one on: a map of slices, a struct with an exploded      *)
(* member, and pointers.  They follow the scalar types.                     *)

CapGoTypes == <<"map[string][]int", "Ex", "*Pair", "*[]int">>

CapType(n) ==
    Field(<<"F">>, CapGoTypes[Choice(n, 1, Len(CapGoTypes))],
          [Tag(FieldBases[Choice(n, Len(CapGoTypes), 4)], NameM) EXCEPT
              !.ExplodeP = FieldExplodes[Choice(n, 4 * Len(CapGoTypes), 3)],
              !.DeepObject = (Choice(n, 12 * Len(CapGoTypes), 2) = 2)])

CapTypeIds ==
    (Len(ModelTypes) + NumFieldTypes + (4 * Len(ScalarGoTypes)) + 1)
        ..(Len(ModelTypes) + NumFieldTypes + (4 * Len(ScalarGoTypes))
              + (24 * Len(CapGoTypes)))

\* the fields of the type numbered t, the model types being the first types,
\* the nf types of one field the next and the ns scalar types the ones after
FieldsAmong(t, types, nf, ns) ==
    IF t <= Len(types) THEN types[t]
    ELSE IF t <= Len(types) + nf THEN <<FieldType(t - Len(types))>>
    ELSE IF t <= Len(types) + nf + ns THEN <<ScalarType(t - (Len(types) + nf))>>
    ELSE <<CapType(t - (Len(types) + nf + ns))>>

FieldsOf(t) == FieldsAmong(t, ModelTypes, NumFieldTypes, 4 * Len(ScalarGoTypes))

Bases(t) == {IF FieldsOf(t)[j].tagged THEN FieldsOf(t)[j].fill.Base ELSE "" :
                j \in 1..Len(FieldsOf(t))}

ContentTypeJSON == "application/json"

ContentTypeXML == "application/xml"

\* the options GenerateDecoder may be given; the ones no field of the type
\* reads are left at their defaults
OptionsFor(t) ==
    [rejectUnknownQueryParameters : BOOLEAN,
     decoders : IF "model" \in Bases(t)
                THEN {{}, {ContentTypeJSON}, {ContentTypeJSON, ContentTypeXML}}
                ELSE {{}},
     defaultContentType : IF "model" \in Bases(t)
                          THEN {"", ContentTypeJSON, ContentTypeXML}
                          ELSE {""},
     pathVarFunction : IF "path" \in Bases(t) THEN {"nil", "valid"} ELSE {"nil"}]

-----------------------------------------------------------------------------
(* Requests.  A request is what the resolver reads of it: the Content-Type  *)
(* header, what the registered body decoder makes of the body, the path     *)
(* variables, the headers, the URL query, what url.ParseQuery makes of the  *)
(* body, and the cookies.  Only the parameters some field of the type names *)
(* and a few unknown keys are enumerated.                                   *)

ContentTypeForm == "application/x-www-form-urlencoded"

ContentTypeFormCharset == "application/x-www-form-urlencoded; charset=UTF-8"

ContentTypes == {"", ContentTypeJSON, ContentTypeForm, ContentTypeFormCharset}

ValPool == {<<Str7>>, <<StrX>>, <<Str8, Str7>>}

NamesOf(t, base) ==
    {ParamName(FieldsOf(t)[j]) :
        j \in {i \in 1..Len(FieldsOf(t)) :
                  FieldsOf(t)[i].tagged /\ FieldsOf(t)[i].fill.Base = base}}

DeepNamesOf(t) ==
    {ParamName(FieldsOf(t)[j]) :
        j \in {i \in 1..Len(FieldsOf(t)) :
                  /\ FieldsOf(t)[i].tagged
                  /\ FieldsOf(t)[i].fill.Base = "query"
                  /\ FieldsOf(t)[i].fill.DeepObject}}

HasForm(t) ==
    \E j \in 1..Len(FieldsOf(t)) :
        /\ FieldsOf(t)[j].tagged
        /\ FieldsOf(t)[j].fill.Base = "query"
        /\ (FieldsOf(t)[j].fill.Form \/ FieldsOf(t)[j].fill.FormOnly)

KeyPool(t) ==
    NamesOf(t, "query")
        \cup {Bracket(n, <<"a">>) : n \in DeepNamesOf(t)}
        \cup {Bracket(n, <<"b">>) : n \in DeepNamesOf(t)}
        \cup {NameZ, KeyZA}

\* url.Values with at most n keys; a key no field of any type names has one
\* value
ValuesUpTo(keys, n) ==
    UNION {{v \in [S -> ValPool] : \A k \in S \cap {NameZ, KeyZA} : v[k] = <<Str7>>} :
              S \in {T \in SUBSET keys : Cardinality(T) <= n}}

Partial(names, vals) == UNION {[S -> vals] : S \in SUBSET names}

\* what url.ParseQuery makes of the body: values, or an error
FormPool(t, n) ==
    IF HasForm(t)
    THEN {[ok |-> TRUE, values |-> v] : v \in ValuesUpTo(KeyPool(t), n)}
             \cup {[ok |-> FALSE, values |-> << >>]}
    ELSE {[ok |-> TRUE, values |-> << >>]}

Requests(t) ==
    UNION {
        {[ct |-> c, body |-> b, path |-> p, header |-> h, query |-> q, form |-> f,
          cookie |-> k] :
            c \in IF HasForm(t) THEN ContentTypes
                  ELSE IF "model" \in Bases(t)
                  THEN {"", ContentTypeJSON, ContentTypeXML}
                  ELSE {""},
            b \in IF "model" \in Bases(t) THEN {"good", "bad"} ELSE {"good"},
            p \in [NamesOf(t, "path") -> {Str7, StrX}],
            h \in Partial(NamesOf(t, "header"), {<<Str7>>, <<StrX>>}),
            f \in FormPool(t, MaxParams - Cardinality(DOMAIN q)),
            k \in Partial(NamesOf(t, "cookie"), {Str7, StrX})} :
        q \in ValuesUpTo(KeyPool(t), MaxParams)}

NoRequest ==
    [ct |-> "", body |-> "good", path |-> << >>, header |-> << >>, query |-> << >>,
     form |-> [ok |-> TRUE, values |-> << >>], cookie |-> << >>]

(* The requests made of a binder of a one-field type: the parameter m with  *)
(* values that hold the delimiters and the "=" the unpackers split at.      *)

Str78 == <<"7", ",", "8">>
Str789 == <<"7", ",", "8", ",", "9">>
Str7Pipe8 == <<"7", "|", "8">>
Str7Semi8 == <<"7", ";", "8">>
StrA7 == <<"a", "=", "7">>
StrA8 == <<"a", "=", "8">>
StrB8 == <<"b", "=", "8">>
StrA == <<"a">>

\* the values of one raw parameter
FieldValue == {Str7, StrX, Str78, Str789, Str7Pipe8, Str7Semi8}

\* the occurrences of a parameter of the URL query or of a header
FieldValues ==
    {<<v>> : v \in FieldValue}
        \cup {<<Str8, Str7>>, <<Str7, Str8, Str7>>, <<Str78, Str7>>, <<Str8, StrX>>,
              <<StrA7, StrB8>>, <<StrA7, StrA8>>, <<StrB8, StrA>>}

\* the bracket keys of the parameter
FieldDeepValues ==
    {(KeyMA :> <<Str7>>),
     (KeyMA :> <<Str7>>) @@ (KeyMB :> <<Str8>>),
     (KeyMA :> <<StrX>>)}

\* a field with a content= tag is decoded by a registered decoder of the
\* content type, which is not modelled: no request is made of its binder
FieldRequests(t) ==
    LET fill == FieldsOf(t)[1].fill
    IN IF fill.Content # "" THEN {}
       ELSE CASE fill.Base = "query" ->
                   {[NoRequest EXCEPT !.query = q] :
                       q \in {<< >>} \cup {(NameM :> v) : v \in FieldValues}
                                \cup FieldDeepValues}
              [] fill.Base = "header" ->
                   {[NoRequest EXCEPT !.header = h] :
                       h \in {<< >>} \cup {(NameM :> v) : v \in FieldValues}}
              [] fill.Base = "path" ->
                   {[NoRequest EXCEPT !.path = (NameM :> v)] : v \in FieldValue}
              [] fill.Base = "cookie" ->
                   {[NoRequest EXCEPT !.cookie = c] :
                       c \in {<< >>} \cup {(NameM :> v) : v \in FieldValue}}

\* the type a pointer type points to, at the end
RECURSIVE Deref(_)
Deref(t) == IF Kind(t) = "ptr" THEN Deref(Elem(t)) ELSE t

(* The requests made of the binder of a scalar type: the parameter, once,   *)
(* holding the text the tests give a value of the type (decode_test.go      *)
(* 63-91: decimal digits with a minus sign for the negative ones, true and  *)
(* false, the string itself), for the whole range of the 8-bit integers,    *)
(* the ends and the middle of the range of the 16-bit ones, and the values  *)
(* next to the range, which do not fit.                                     *)

RECURSIVE FormatNat(_)
FormatNat(n) ==
    IF n < 10 THEN <<Digits[n + 1]>>
    ELSE FormatNat(n \div 10) \o <<Digits[(n % 10) + 1]>>

FormatInt(v) == IF v < 0 THEN <<"-">> \o FormatNat(0 - v) ELSE FormatNat(v)

ScalarValues(t) ==
    CASE Deref(t) = "int8" -> (0 - 128)..127
      [] Deref(t) = "uint8" -> 0..255
      [] Deref(t) = "int16" ->
            {0 - 32768, 0 - 32767, 0 - 129, 0 - 128, 0 - 1, 0, 1, 127, 128, 255,
             256, 32767}
      [] Deref(t) = "uint16" -> {0, 1, 255, 256, 32767, 32768, 65535}
      [] Deref(t) = "bool" -> BOOLEAN
      [] Deref(t) = "string" ->
            {Empty, Str7, StrX, Str78, StrA7, StrTrue, <<"-", "1">>, <<" ">>}

Format(t, v) ==
    CASE Deref(t) \in {"int8", "int16", "uint8", "uint16"} -> FormatInt(v)
      [] Deref(t) = "bool" -> IF v THEN StrTrue ELSE StrFalse
      [] Deref(t) = "string" -> v

\* texts of values the type has no room for
Misfits(t) ==
    CASE Deref(t) = "int8" -> {FormatInt(0 - 129), FormatInt(128)}
      [] Deref(t) = "uint8" -> {FormatInt(0 - 1), FormatInt(256)}
      [] Deref(t) = "int16" -> {FormatInt(0 - 32769), FormatInt(32768)}
      [] Deref(t) = "uint16" -> {FormatInt(0 - 1), FormatInt(65536)}
      [] Deref(t) = "bool" -> {StrX, <<"2">>}
      [] Deref(t) = "string" -> {}

ScalarTexts(t) == {Format(t, v) : v \in ScalarValues(t)} \cup Misfits(t)

ScalarRequests(t) ==
    LET fill == FieldsOf(t)[1].fill
        texts == ScalarTexts(FieldsOf(t)[1].type)
    IN CASE fill.Base = "query" ->
              {[NoRequest EXCEPT !.query = (NameM :> <<v>>)] : v \in texts}
         [] fill.Base = "header" ->
              {[NoRequest EXCEPT !.header = (NameM :> <<v>>)] : v \in texts}
         [] fill.Base = "path" ->
              {[NoRequest EXCEPT !.path = (NameM :> v)] : v \in texts}
         [] fill.Base = "cookie" ->
              {[NoRequest EXCEPT !.cookie = (NameM :> v)] : v \in texts}

-----------------------------------------------------------------------------
(* The generated function (lines 453-538).  A run holds the closure's       *)
(* locals: the request, the model, err, the position in the loop it is in   *)
(* (i for the filler slices, todo for the keys of a Go map still to be      *)
(* ranged over) and, as a record of what happened, the trace of the fillers *)
(* it called and of the keys it found no filler for.                        *)

Runs == 1..MaxRuns

IdleRun ==
    [pc |-> "idle", req |-> NoRequest, model |-> << >>, err |-> NoError, i |-> 0,
     todo |-> {}, trace |-> << >>, rvlCalls |-> 0, ev |-> NoError]

F == binder.fillers

Fields == FieldsOf(typ)

TagsOf(j) == parseTag(Fields[j].fill)

CapOf(j) == getUnpacker(Fields[j].type, TagsOf(j).Base, TagsOf(j), options).cap

\* a faulty setError: the last error replaces the ones before
setErrorLast(r, e) == IF e # NoError THEN [r EXCEPT !.err = e] ELSE r

\* lines 459-463: setError keeps the first error it is given
setError(r, e) == IF r.err = NoError /\ e # NoError THEN [r EXCEPT !.err = e] ELSE r

\* one call of a filler (or one rejection) and what it returned
Call(src, j, key, e) == [src |-> src, field |-> j, key |-> key, err |-> e]

\* a filler has run: its field holds val and its error goes to setError
Filled(r, src, j, key, res) ==
    setError([r EXCEPT !.model[j] = res.val,
                       !.trace = Append(@, Call(src, j, key, res.err))],
             res.err)

\* a step other than a filler (a key nothing is registered for, the parse of
\* the form body) and the error it gave to setError, if any
Rejected(r, src, key, e) ==
    setError([r EXCEPT !.trace = Append(@, Call(src, 0, key, e))], e)

\* a decoder registered with WithDecoder, applied to the body: what the
\* field holds afterwards tells which decoder wrote it
exactDecoder(ct, body, old) ==
    IF body = "good" THEN Result(NoError, ct)
    ELSE Result(Errorf("body", Empty, Empty, <<"decoder">>), old)

\* a faulty bodyFiller: a content type without a decoder is let through
bodyFillerLenient(r, j) ==
    LET ct == IF r.req.ct = "" THEN options.defaultContentType ELSE r.req.ct
    IN IF ct \notin options.decoders THEN Result(NoError, r.model[j])
       ELSE LET res == exactDecoder(ct, r.req.body, r.model[j])
            IN Result(Wrapf(res.err, "body", Empty, Fields[j].fname), res.val)

\* a faulty bodyFiller: the Content-Type header is not looked at
bodyFillerDefault(r, j) ==
    LET ct == options.defaultContentType
    IN IF ct \notin options.decoders
       THEN Result(Errorf("body", Empty, Fields[j].fname, <<"no decoder">>), r.model[j])
       ELSE LET res == exactDecoder(ct, r.req.body, r.model[j])
            IN Result(Wrapf(res.err, "body", Empty, Fields[j].fname), res.val)

\* lines 296-309
bodyFiller(r, j) ==
    LET ct == IF r.req.ct = "" THEN options.defaultContentType ELSE r.req.ct
    IN IF ct \notin options.decoders
       THEN Result(Errorf("body", Empty, Fields[j].fname, <<"no decoder">>), r.model[j])
       ELSE LET res == exactDecoder(ct, r.req.body, r.model[j])
            IN Result(Wrapf(res.err, "body", Empty, Fields[j].fname), res.val)

\* lines 324-330
varsFiller(r, j) ==
    LET name == ParamName(Fields[j])
        value == IF name \in DOMAIN r.req.path THEN r.req.path[name] ELSE Empty
        res == unpackSingle(Fields[j].type, "path", TagsOf(j), options, name, "path",
                            r.model[j], value)
    IN Result(Wrapf(res.err, "path", name, Fields[j].fname), res.val)

\* a faulty headerFiller: a header the request does not have is decoded as
\* the empty string
headerFillerAlways(r, j) ==
    LET name == ParamName(Fields[j])
        values == IF name \in DOMAIN r.req.header THEN r.req.header[name] ELSE <<Empty>>
    IN IF CapOf(j) = "multi"
       THEN LET res == unpackMulti(Fields[j].type, "header", TagsOf(j), options,
                                   name, "header", r.model[j], values)
            IN Result(Wrapf(res.err, "header", name, Fields[j].fname), res.val)
       ELSE IF Len(values) = 0 THEN Result(NoError, r.model[j])
            ELSE LET res == unpackSingle(Fields[j].type, "header", TagsOf(j), options,
                                         name, "header", r.model[j], values[1])
                 IN Result(Wrapf(res.err, "header", name, Fields[j].fname), res.val)

\* lines 331-356
headerFiller(r, j) ==
    LET name == ParamName(Fields[j])
        ok == name \in DOMAIN r.req.header
        values == r.req.header[name]
    IN IF CapOf(j) = "multi"
       THEN IF ~ok THEN Result(NoError, r.model[j])
            ELSE LET res == unpackMulti(Fields[j].type, "header", TagsOf(j), options,
                                        name, "header", r.model[j], values)
                 IN Result(Wrapf(res.err, "header", name, Fields[j].fname), res.val)
       ELSE IF ~ok \/ Len(values) = 0 THEN Result(NoError, r.model[j])
            ELSE LET res == unpackSingle(Fields[j].type, "header", TagsOf(j), options,
                                         name, "header", r.model[j], values[1])
                 IN Result(Wrapf(res.err, "header", name, Fields[j].fname), res.val)

\* lines 364-383: the filler of a query parameter with a multi or single unpacker
queryFiller(r, j, values) ==
    LET name == ParamName(Fields[j])
    IN IF CapOf(j) = "multi"
       THEN LET res == unpackMulti(Fields[j].type, "query", TagsOf(j), options,
                                   name, "query", r.model[j], values)
            IN Result(Wrapf(res.err, "query", name, Fields[j].fname), res.val)
       ELSE IF Len(values) = 0 THEN Result(NoError, r.model[j])
            ELSE LET res == unpackSingle(Fields[j].type, "query", TagsOf(j), options,
                                         name, "query", r.model[j], values[1])
                 IN Result(Wrapf(res.err, "query", name, Fields[j].fname), res.val)

\* lines 360-363: the outcomes of the filler of a deep object
deepObjectFiller(r, j, mapValues) ==
    unpackDeepObject(Fields[j].type, "query", TagsOf(j), options,
                     ParamName(Fields[j]), r.model[j], mapValues)

\* a faulty cookieFiller: a request without the cookie is an error
cookieFillerStrict(r, j) ==
    LET name == ParamName(Fields[j])
    IN IF name \notin DOMAIN r.req.cookie
       THEN Result(Wrapf(Errorf("cookie", name, Empty, <<"named cookie not present">>),
                         "cookie", name, Fields[j].fname),
                   r.model[j])
       ELSE LET res == unpackSingle(Fields[j].type, "cookie", TagsOf(j), options,
                                    name, "cookie", r.model[j], r.req.cookie[name])
            IN Result(Wrapf(res.err, "cookie", name, Fields[j].fname), res.val)

\* lines 398-411: a request without the cookie leaves the field alone
cookieFiller(r, j) ==
    LET name == ParamName(Fields[j])
    IN IF name \notin DOMAIN r.req.cookie THEN Result(NoError, r.model[j])
       ELSE LET res == unpackSingle(Fields[j].type, "cookie", TagsOf(j), options,
                                    name, "cookie", r.model[j], r.req.cookie[name])
            IN Result(Wrapf(res.err, "cookie", name, Fields[j].fname), res.val)

\* a faulty IsForm: a charset parameter is let through
IsFormPrefix(ct) == ct \in {ContentTypeForm, ContentTypeFormCharset}

\* line 513: the form fallback wants exactly this content type
IsForm(ct) == ct = ContentTypeForm

\* a faulty unknown: the key is rejected whatever the option
unknownAlways(key) == Errorf("query", key, Empty, <<"not supported">>)

\* lines 504-506: a key nothing is registered for
unknown(key) ==
    IF options.rejectUnknownQueryParameters
    THEN Errorf("query", key, Empty, <<"not supported">>)
    ELSE NoError

\* a faulty errorValue: the return code is left out
errorValuePlain(r) == Wrapf(r.err, "model", Empty, Empty)

\* lines 528-533: the error value returned
errorValue(r) == Wrapf(ReturnCode(r.err, StatusBadRequest), "model", Empty, Empty)

(* Control flow: where the function goes when a loop is over.  A step that  *)
(* has nothing to do is passed over. d is the run's deepObjects.            *)

EnterCookie(r) ==
    IF Len(F.cookieFillers) # 0 THEN [r EXCEPT !.pc = "cookie", !.i = 1, !.todo = {}]
    ELSE [r EXCEPT !.pc = "return", !.i = 0, !.todo = {}]

EnterDeep(r, d) ==
    IF DOMAIN d # {} THEN [r EXCEPT !.pc = "deep", !.i = 0, !.todo = DOMAIN d]
    ELSE EnterCookie(r)

\* lines 510-521
EnterForm(r, d) ==
    IF (DOMAIN F.queryFillersForm # {} \/ DOMAIN F.deepObjectFillersForm # {})
       /\ IsForm(r.req.ct)
    THEN IF ~r.req.form.ok
         THEN EnterDeep(Rejected(r, "form", Empty,
                                 Errorf("form", Empty, Empty, <<"could not parse">>)), d)
         ELSE IF DOMAIN r.req.form.values = {} THEN EnterDeep(r, d)
         ELSE [r EXCEPT !.pc = "form", !.i = 0, !.todo = DOMAIN r.req.form.values]
    ELSE EnterDeep(r, d)

EnterQuery(r, d) ==
    IF DOMAIN r.req.query # {}
    THEN [r EXCEPT !.pc = "query", !.i = 0, !.todo = DOMAIN r.req.query]
    ELSE EnterForm(r, d)

EnterHeader(r, d) ==
    IF Len(F.headerFillers) # 0 THEN [r EXCEPT !.pc = "header", !.i = 1]
    ELSE EnterQuery(r, d)

EnterPath(r, d) ==
    IF Len(F.varsFillers) # 0 THEN [r EXCEPT !.pc = "path", !.i = 1]
    ELSE EnterHeader(r, d)

EnterBody(r, d) ==
    IF Len(F.bodyFillers) # 0 THEN [r EXCEPT !.pc = "body", !.i = 1]
    ELSE EnterPath(r, d)

\* a faulty loopNext: the function returns at the first error
loopNextBreak(r, n, after) ==
    IF r.err # NoError THEN [r EXCEPT !.pc = "return", !.i = 0, !.todo = {}]
    ELSE IF r.i < n THEN [r EXCEPT !.i = r.i + 1]
    ELSE after

\* the for loops over the filler slices go on whatever the filler returned
loopNext(r, n, after) == IF r.i < n THEN [r EXCEPT !.i = r.i + 1] ELSE after

\* a faulty handleQueryParams: the bracket pattern is tried before the name
handleQueryParamsDeepFirst(r, d, src, key, vals, queryFillers, deepObjectFillers) ==
    LET m == deepObjectRE(key)
    IN IF DOMAIN deepObjectFillers # {} /\ Len(m) = 3 /\ m[2] \in DOMAIN deepObjectFillers
       THEN [r |-> r,
             d |-> Put(d, m[2], Put(IF m[2] \in DOMAIN d THEN d[m[2]] ELSE << >>,
                                   m[3], vals))]
       ELSE IF key \in DOMAIN queryFillers
       THEN [r |-> Filled(r, src, queryFillers[key], key,
                          queryFiller(r, queryFillers[key], vals)),
             d |-> d]
       ELSE [r |-> Rejected(r, src, key, unknown(key)), d |-> d]

\* lines 485-507: handleQueryParams for one key of values; the result is the
\* run and its deepObjects
handleQueryParams(r, d, src, key, vals, queryFillers, deepObjectFillers) ==
    LET m == deepObjectRE(key)
    IN IF key \in DOMAIN queryFillers
       THEN [r |-> Filled(r, src, queryFillers[key], key,
                          queryFiller(r, queryFillers[key], vals)),
             d |-> d]
       ELSE IF DOMAIN deepObjectFillers # {} /\ Len(m) = 3
               /\ m[2] \in DOMAIN deepObjectFillers
       THEN [r |-> r,
             d |-> Put(d, m[2], Put(IF m[2] \in DOMAIN d THEN d[m[2]] ELSE << >>,
                                   m[3], vals))]
       ELSE [r |-> Rejected(r, src, key, unknown(key)), d |-> d]

-----------------------------------------------------------------------------
(* The state machine *)

\* the decoder is the part at work: no error value is being built and no
\* response writer is in use
Idle == chain = << >> /\ dw = << >> /\ tw = << >>

NotCompiled == [status |-> "none", err |-> NoError, fillers |-> NoFillers]

\* a faulty DeepSlot: one deepObjects map for all the runs
DeepSlotShared(i) == 1

\* line 483: the deepObjects variable is declared inside the generated
\* function: each run has its own
DeepSlot(i) == i

D(i) == deepObjects[DeepSlot(i)]

NewModel == [j \in 1..Len(Fields) |-> Zero(Fields[j].type)]

Init ==
    /\ typ \in 1..Len(ModelTypes)
    /\ options \in OptionsFor(typ)
    /\ binder = NotCompiled
    /\ runs = [i \in Runs |-> IdleRun]
    /\ deepObjects = [i \in Runs |-> << >>]
    /\ Idle

\* service wiring: the type is compiled once
Compile ==
    /\ binder.status = "none"
    /\ binder' = GenerateDecoder(Fields, options)
    /\ UNCHANGED <<typ, options, runs, deepObjects, chain, dw, tw>>

Update(i, r, d) ==
    /\ runs' = [runs EXCEPT ![i] = r]
    /\ deepObjects' = [deepObjects EXCEPT ![DeepSlot(i)] = d]
    /\ UNCHANGED <<typ, options, binder, chain, dw, tw>>

\* lines 455-458 and 483: a fresh model, no error, no deep objects
StartRun(req) == EnterBody([IdleRun EXCEPT !.req = req, !.model = NewModel], << >>)

(* The steps of the generated function, as the set of the run's next states *)
(* [r, d] from the run r and its deepObjects d.                             *)

Next1(r, d) == {[r |-> r, d |-> d]}

\* lines 464-469
BodyStep(r, d) ==
    LET r1 == Filled(r, "body", F.bodyFillers[r.i], Empty,
                     bodyFiller(r, F.bodyFillers[r.i]))
    IN Next1(loopNext(r1, Len(F.bodyFillers), EnterPath(r1, d)), d)

\* a faulty PathStep: the lookup provider is called for every path filler
PathStepEachFiller(r, d) ==
    LET r0 == [r EXCEPT !.rvlCalls = @ + 1]
        j == F.varsFillers[r.i]
        r1 == Filled(r0, "path", j, ParamName(Fields[j]), varsFiller(r0, j))
    IN Next1(loopNext(r1, Len(F.varsFillers), EnterHeader(r1, d)), d)

\* lines 470-479: the lookup provider is called before the first path filler
PathStep(r, d) ==
    LET r0 == IF r.i = 1 THEN [r EXCEPT !.rvlCalls = @ + 1] ELSE r
        j == F.varsFillers[r.i]
        r1 == Filled(r0, "path", j, ParamName(Fields[j]), varsFiller(r0, j))
    IN Next1(loopNext(r1, Len(F.varsFillers), EnterHeader(r1, d)), d)

\* lines 480-482
HeaderStep(r, d) ==
    LET j == F.headerFillers[r.i]
        r1 == Filled(r, "header", j, ParamName(Fields[j]), headerFiller(r, j))
    IN Next1(loopNext(r1, Len(F.headerFillers), EnterQuery(r1, d)), d)

\* the key has been handled: on to the next one, or out of the loop
keyDone(nx, key, after) ==
    IF nx.r.todo = {key} THEN [r |-> after, d |-> nx.d]
    ELSE [r |-> [nx.r EXCEPT !.todo = @ \ {key}], d |-> nx.d]

QueryDone(nx, key) == keyDone(nx, key, EnterForm([nx.r EXCEPT !.todo = {}], nx.d))

FormDone(nx, key) == keyDone(nx, key, EnterDeep([nx.r EXCEPT !.todo = {}], nx.d))

\* line 509: one key of the URL query, in the order the Go map gives
QueryStep(r, d) ==
    {QueryDone(handleQueryParams(r, d, "query", key, r.req.query[key],
                                 F.queryFillers, F.deepObjectFillers), key) :
        key \in r.todo}

\* a faulty FormStep: a key the URL query has as well is passed over
FormStepAbsentOnly(r, d) ==
    {FormDone(IF key \in DOMAIN r.req.query THEN [r |-> r, d |-> d]
              ELSE handleQueryParams(r, d, "form", key, r.req.form.values[key],
                                     F.queryFillersForm, F.deepObjectFillersForm), key) :
        key \in r.todo}

\* line 518: one key of the form body
FormStep(r, d) ==
    {FormDone(handleQueryParams(r, d, "form", key, r.req.form.values[key],
                                F.queryFillersForm, F.deepObjectFillersForm), key) :
        key \in r.todo}

DeepDone(r, d, dofKey) ==
    IF r.todo = {dofKey} THEN [r |-> EnterCookie(r), d |-> d]
    ELSE [r |-> [r EXCEPT !.todo = @ \ {dofKey}], d |-> d]

\* lines 522-524: one buffered deep object is given to deepObjectFillers[dofKey];
\* when deepObjectFillers has no entry for dofKey the call of a nil function
\* panics and the function returns nothing.  A range loop visits the keys the
\* map still has.
DeepStep(r, d) ==
    IF r.todo \cap DOMAIN d = {} THEN Next1(EnterCookie(r), d)
    ELSE UNION {
        IF dofKey \notin DOMAIN F.deepObjectFillers
        THEN Next1([r EXCEPT !.pc = "panic", !.todo = {}], d)
        ELSE {DeepDone(Filled(r, "deep", F.deepObjectFillers[dofKey], dofKey, res),
                       d, dofKey) :
                 res \in deepObjectFiller(r, F.deepObjectFillers[dofKey], d[dofKey])} :
        dofKey \in r.todo \cap DOMAIN d}

\* lines 525-527
CookieStep(r, d) ==
    LET j == F.cookieFillers[r.i]
        r1 == Filled(r, "cookie", j, ParamName(Fields[j]), cookieFiller(r, j))
    IN Next1(loopNext(r1, Len(F.cookieFillers), [r1 EXCEPT !.pc = "return", !.i = 0]),
             d)

\* lines 528-537: the model and the error value are returned
ReturnStep(r, d) == Next1([r EXCEPT !.pc = "done", !.ev = errorValue(r)], d)

-----------------------------------------------------------------------------
(* Actions *)

\* a request arrives
Start(i, pool) ==
    /\ binder.status = "ok"
    /\ runs[i].pc = "idle"
    /\ \E req \in pool : Update(i, StartRun(req), << >>)

BodyFill(i) ==
    /\ runs[i].pc = "body"
    /\ \E nx \in BodyStep(runs[i], D(i)) : Update(i, nx.r, nx.d)

PathFill(i) ==
    /\ runs[i].pc = "path"
    /\ \E nx \in PathStep(runs[i], D(i)) : Update(i, nx.r, nx.d)

HeaderFill(i) ==
    /\ runs[i].pc = "header"
    /\ \E nx \in HeaderStep(runs[i], D(i)) : Update(i, nx.r, nx.d)

QueryParam(i) ==
    /\ runs[i].pc = "query"
    /\ \E nx \in QueryStep(runs[i], D(i)) : Update(i, nx.r, nx.d)

FormParam(i) ==
    /\ runs[i].pc = "form"
    /\ \E nx \in FormStep(runs[i], D(i)) : Update(i, nx.r, nx.d)

DeepDispatch(i) ==
    /\ runs[i].pc = "deep"
    /\ \E nx \in DeepStep(runs[i], D(i)) :
          /\ nx.r.pc # "panic"
          /\ Update(i, nx.r, nx.d)

DeepPanic(i) ==
    /\ runs[i].pc = "deep"
    /\ \E nx \in DeepStep(runs[i], D(i)) :
          /\ nx.r.pc = "panic"
          /\ Update(i, nx.r, nx.d)

CookieFill(i) ==
    /\ runs[i].pc = "cookie"
    /\ \E nx \in CookieStep(runs[i], D(i)) : Update(i, nx.r, nx.d)

Return(i) ==
    /\ runs[i].pc = "return"
    /\ \E nx \in ReturnStep(runs[i], D(i)) : Update(i, nx.r, nx.d)

Step(i) ==
    \/ BodyFill(i)
    \/ PathFill(i)
    \/ HeaderFill(i)
    \/ QueryParam(i)
    \/ FormParam(i)
    \/ DeepDispatch(i)
    \/ DeepPanic(i)
    \/ CookieFill(i)
    \/ Return(i)

\* one request at a time
Next ==
    \/ Compile
    \/ Start(1, Requests(typ))
    \/ Step(1)

Spec == Init /\ [][Next]_vars

-----------------------------------------------------------------------------
(* Concurrent requests: the compiled binder serves several requests at      *)
(* once, each run a call of the generated function on its own goroutine,    *)
(* their steps interleaved in any order.                                    *)

ConcTypes == {1, 3, 4, 8}

\* a few requests of each type, enough to reach every step
ConcRequests(t) ==
    CASE t = 1 ->
           {[NoRequest EXCEPT !.ct = ContentTypeJSON, !.body = b,
                              !.path = (NameP :> Str7),
                              !.header = (NameH :> <<v>>),
                              !.cookie = (NameK :> Str8)] :
               b \in {"good", "bad"}, v \in {Str7, StrX}}
      [] t = 3 ->
           {[NoRequest EXCEPT !.query = (KeyMA :> <<Str7>>)],
            [NoRequest EXCEPT !.query = (KeyMB :> <<Str8, Str7>>),
                              !.ct = ContentTypeForm,
                              !.form = [ok |-> TRUE, values |-> (KeyMA :> <<StrX>>)]],
            [NoRequest EXCEPT !.query = (NameS :> <<Str8, Str7>>),
                              !.cookie = (NameK :> StrX)],
            [NoRequest EXCEPT !.query = (NameS :> <<StrX>>) @@ (NameZ :> <<Str7>>)]}
      [] t = 4 ->
           {[NoRequest EXCEPT !.ct = ContentTypeForm,
                              !.header = (NameH :> <<StrX>>),
                              !.form = [ok |-> TRUE, values |-> (KeyMA :> <<Str7>>)]],
            [NoRequest EXCEPT !.query = (KeyMA :> <<Str7>>),
                              !.header = (NameH :> <<Str7>>)]}
      [] t = 8 ->
           {[NoRequest EXCEPT !.query = (KeyMA :> <<StrX>>) @@ (KeyMB :> <<Str8>>)],
            [NoRequest EXCEPT !.query = (KeyMA :> <<Str7>>) @@ (KeyMB :> <<Str8>>)]}
      [] OTHER -> {}

InitConc ==
    /\ typ \in ConcTypes
    /\ options \in OptionsFor(typ)
    /\ binder = NotCompiled
    /\ runs = [i \in Runs |-> IdleRun]
    /\ deepObjects = [i \in Runs |-> << >>]
    /\ Idle

NextConc ==
    \/ Compile
    \/ \E i \in Runs : Start(i, ConcRequests(typ))
    \/ \E i \in Runs : Step(i)

SpecConc == InitConc /\ [][NextConc]_vars

-----------------------------------------------------------------------------
(* One field at a time: the binder of each one-field type is compiled and   *)
(* serves one request.                                                      *)

InitField ==
    /\ typ \in FieldTypeIds
    /\ options \in OptionsFor(typ)
    /\ binder = NotCompiled
    /\ runs = [i \in Runs |-> IdleRun]
    /\ deepObjects = [i \in Runs |-> << >>]
    /\ Idle

NextField ==
    \/ Compile
    \/ Start(1, FieldRequests(typ))
    \/ PathFill(1)
    \/ HeaderFill(1)
    \/ QueryParam(1)
    \/ DeepDispatch(1)
    \/ CookieFill(1)
    \/ Return(1)

SpecField == InitField /\ [][NextField]_vars

-----------------------------------------------------------------------------
(* The binder of a type of one scalar field, for every scalar type and      *)
(* base: it is compiled and serves one request that holds the parameter.    *)

InitScalar ==
    /\ typ \in ScalarTypeIds
    /\ options \in OptionsFor(typ)
    /\ binder = NotCompiled
    /\ runs = [i \in Runs |-> IdleRun]
    /\ deepObjects = [i \in Runs |-> << >>]
    /\ Idle

NextScalar ==
    \/ Compile
    \/ Start(1, ScalarRequests(typ))
    \/ PathFill(1)
    \/ HeaderFill(1)
    \/ QueryParam(1)
    \/ CookieFill(1)
    \/ Return(1)

SpecScalar == InitScalar /\ [][NextScalar]_vars

-----------------------------------------------------------------------------
(* The binder of a type of one field, the types of nested unpackers         *)
(* included: compiled, it serves one request.                               *)

InitCap ==
    /\ typ \in FieldTypeIds \cup CapTypeIds
    /\ options \in OptionsFor(typ)
    /\ binder = NotCompiled
    /\ runs = [i \in Runs |-> IdleRun]
    /\ deepObjects = [i \in Runs |-> << >>]
    /\ Idle

SpecCap == InitCap /\ [][NextField]_vars

-----------------------------------------------------------------------------
(* The error helpers on their own: an error value is made, annotated with   *)
(* return codes and wrapped, in any order.  chain.code is the code of the   *)
(* last annotation the value got (0: none).                                 *)

\* the codes of the helpers (NotFound, BadRequest, Unauthorized, Forbidden),
\* of the tests (303, 304), and 500
Codes == {303, 304, 400, 401, 403, 404, 500}

InitErr ==
    /\ typ = 1
    /\ options \in OptionsFor(typ)
    /\ options.decoders = {} /\ options.defaultContentType = ""
    /\ options.pathVarFunction = "nil" /\ ~options.rejectUnknownQueryParameters
    /\ binder = NotCompiled
    /\ runs = [i \in Runs |-> IdleRun]
    /\ deepObjects = [i \in Runs |-> << >>]
    /\ dw = << >> /\ tw = << >>
    /\ chain = [err |-> NoError, code |-> 0]

\* fmt.Errorf("x")
NewError ==
    /\ chain.err = NoError
    /\ chain' = [err |-> Errorf("", Empty, Empty, StrX), code |-> 0]
    /\ UNCHANGED <<typ, options, binder, runs, deepObjects, dw, tw>>

\* err = ReturnCode(err, c), also by way of NotFound, BadRequest,
\* Unauthorized and Forbidden; a nil error stays nil
Annotate ==
    /\ Len(chain.err) < MaxLayers
    /\ \E c \in Codes :
          chain' = [err |-> ReturnCode(chain.err, c),
                    code |-> IF ReturnCode(chain.err, c) = NoError THEN chain.code ELSE c]
    /\ UNCHANGED <<typ, options, binder, runs, deepObjects, dw, tw>>

\* err = errors.Wrap(err, "o")
WrapError ==
    /\ Len(chain.err) < MaxLayers
    /\ chain' = [chain EXCEPT !.err = Wrapf(chain.err, "", Empty, Empty)]
    /\ UNCHANGED <<typ, options, binder, runs, deepObjects, dw, tw>>

NextErr == NewError \/ Annotate \/ WrapError

SpecErr == InitErr /\ [][NextErr]_vars

-----------------------------------------------------------------------------
(* The deferred writer and the response writer under it, as                 *)
(* deferred_test.go uses them.  tw is the test's testResponseWriter (lines  *)
(* 15-49); dw is the DeferredWriter made for it: the headers, body and      *)
(* status it holds back, the headers Reset returns to, whether it has       *)
(* handed over to the writer under it, and, as a record of what happened,   *)
(* the headers tw had when dw was made, how Flush ended and whether         *)
(* UnderlyingWriter was called.                                             *)

HeaderKeys == {"a", "c"}

HeaderVals == {"b", "d"}

BodyBytes == {<<"h">>, <<"o", "w">>}

StatusCodes == {109, 303}

\* http.Header.Set
HeaderSet(h, k, v) == [x \in DOMAIN h \cup {k} |-> IF x = k THEN v ELSE h[x]]

\* lines 25-29
twWriteHeader(w, code) == IF w.code = 0 THEN [w EXCEPT !.code = code] ELSE w

\* lines 31-49: the result is the writer afterwards, the count and the error
twWrite(w, b) ==
    IF w.simulateWriteError # "nil"
    THEN IF w.simulateWriteError = "ErrShortWrite"
         THEN IF Len(b) = 0 THEN [w |-> w, n |-> 0, err |-> "nil"]
              ELSE [w |-> [w EXCEPT !.buffer = Append(@, b[1]),
                                    !.simulateWriteError = "nil"],
                    n |-> 1, err |-> "ErrShortWrite"]
         ELSE [w |-> w, n |-> 0, err |-> w.simulateWriteError]
    ELSE [w |-> [w EXCEPT !.buffer = @ \o b,
                          !.code = IF @ = 0 THEN 200 ELSE @],
          n |-> Len(b), err |-> "nil"]

\* NewDeferredWriter(w): the headers start as a copy of those of w
NewDeferredWriter(w) ==
    [header |-> w.header, resetHeader |-> w.header, buffer |-> << >>, status |-> 0,
     passthrough |-> FALSE, created |-> w.header, flushed |-> "no",
     underlying |-> FALSE]

\* Done()
Done(d) == d.passthrough

\* Body(): the body and the status held back
Body(d) == [body |-> d.buffer, code |-> d.status]

\* a faulty Write: the bytes go to the writer under it at once
deferredWritePassthrough(d, w, b) == [d |-> d, w |-> twWrite(w, b).w]

\* Write(b): the bytes are kept
deferredWrite(d, w, b) == [d |-> [d EXCEPT !.buffer = @ \o b], w |-> w]

\* the writes of Flush: what a short write left over is written again, any
\* other error ends the flush
RECURSIVE flushWrites(_, _)
flushWrites(w, b) ==
    LET r == twWrite(w, b)
    IN IF r.err \notin {"nil", "ErrShortWrite"} THEN [w |-> r.w, err |-> r.err]
       ELSE IF r.n >= Len(b) THEN [w |-> r.w, err |-> "nil"]
       ELSE flushWrites(r.w, SubSeq(b, r.n + 1, Len(b)))

\* Flush(): the headers replace those of the writer under it, then the
\* status, when one was set, and the body are written.  The tests do not show
\* whether an empty body is written (written is that choice).
flush(d, w, written) ==
    LET h == [w EXCEPT !.header = d.header]
        s == IF d.status # 0 THEN twWriteHeader(h, d.status) ELSE h
        r == IF Len(d.buffer) = 0 /\ ~written THEN [w |-> s, err |-> "nil"]
             ELSE flushWrites(s, d.buffer)
    IN IF r.err = "nil"
       THEN [d |-> [d EXCEPT !.passthrough = TRUE, !.flushed = "ok"], w |-> r.w]
       ELSE [d |-> [d EXCEPT !.flushed = "error"], w |-> r.w]

\* the calls below are made of a writer that has not handed over and has not
\* failed to flush; what they do afterwards the tests do not show
Deferring == dw.flushed = "no" /\ ~dw.passthrough

WriterUnchanged == UNCHANGED <<typ, options, binder, runs, deepObjects, chain>>

Write ==
    /\ Deferring
    /\ \E b \in BodyBytes :
          /\ Len(dw.buffer) + Len(b) <= MaxBody
          /\ dw' = deferredWrite(dw, tw, b).d
          /\ tw' = deferredWrite(dw, tw, b).w
    /\ WriterUnchanged

\* w.Header().Set(k, v)
Header ==
    /\ Deferring
    /\ \E k \in HeaderKeys, v \in HeaderVals :
          dw' = [dw EXCEPT !.header = HeaderSet(@, k, v)]
    /\ UNCHANGED tw
    /\ WriterUnchanged

WriteHeader ==
    /\ Deferring
    /\ \E code \in StatusCodes : dw' = [dw EXCEPT !.status = code]
    /\ UNCHANGED tw
    /\ WriterUnchanged

\* Reset(): the body and the status are dropped, the headers are those of the
\* start or of the last PreserveHeader (TestReset, TestPreserveHeader)
Reset ==
    /\ Deferring
    /\ dw' = [dw EXCEPT !.buffer = << >>, !.status = 0, !.header = dw.resetHeader]
    /\ UNCHANGED tw
    /\ WriterUnchanged

PreserveHeader ==
    /\ Deferring
    /\ dw' = [dw EXCEPT !.resetHeader = dw.header]
    /\ UNCHANGED tw
    /\ WriterUnchanged

\* UnderlyingWriter(): the writer under it gets the headers and is handed
\* out; the body held back is not written and Body() fails from then on
\* (TestUnderlyingWriter)
UnderlyingWriter ==
    /\ dw.flushed = "no"
    /\ IF dw.passthrough THEN UNCHANGED <<dw, tw>>
       ELSE /\ tw' = [tw EXCEPT !.header = dw.header]
            /\ dw' = [dw EXCEPT !.passthrough = TRUE, !.underlying = TRUE]
    /\ WriterUnchanged

Flush ==
    /\ Deferring
    /\ \E written \in BOOLEAN :
          /\ dw' = flush(dw, tw, written).d
          /\ tw' = flush(dw, tw, written).w
    /\ WriterUnchanged

InitWriter ==
    /\ typ = 1
    /\ options \in OptionsFor(typ)
    /\ options.decoders = {} /\ options.defaultContentType = ""
    /\ options.pathVarFunction = "nil" /\ ~options.rejectUnknownQueryParameters
    /\ binder = NotCompiled
    /\ runs = [i \in Runs |-> IdleRun]
    /\ deepObjects = [i \in Runs |-> << >>]
    /\ chain = << >>
    /\ \E h \in {<< >>, ("a" :> "b")}, e \in {"nil", "ErrShortWrite", "an error"} :
          /\ tw = [header |-> h, simulateWriteError |-> e, buffer |-> << >>, code |-> 0]
          /\ dw = NewDeferredWriter(tw)

NextWriter ==
    \/ Write
    \/ Header
    \/ WriteHeader
    \/ Reset
    \/ PreserveHeader
    \/ UnderlyingWriter
    \/ Flush

SpecWriter == InitWriter /\ [][NextWriter]_vars

-----------------------------------------------------------------------------
(* What the properties below speak of *)

\* the run has ended: the function returned, or panicked
Over(r) == r.pc \in {"done", "panic"}

InSeq(s) == {s[n] : n \in DOMAIN s}

\* the calls of the trace that returned an error
Failures(r) == {n \in DOMAIN r.trace : r.trace[n].err # NoError}

FirstFailure(r) ==
    IF Failures(r) = {} THEN NoError ELSE r.trace[Min(Failures(r))].err

\* the filler of field j was called in the step src
Invoked(r, src, j) ==
    \E n \in DOMAIN r.trace : r.trace[n].src = src /\ r.trace[n].field = j

PhaseRank(src) ==
    CASE src = "body" -> 1
      [] src = "path" -> 2
      [] src = "header" -> 3
      [] src = "query" -> 4
      [] src = "form" -> 5
      [] src = "deep" -> 6
      [] src = "cookie" -> 7

\* err ends with the chain inner: inner is what err wraps
Wraps(err, inner) ==
    /\ Len(err) >= Len(inner)
    /\ SubSeq(err, Len(err) - Len(inner) + 1, Len(err)) = inner

\* the form body is handed to handleQueryParams
FormRan(r) ==
    /\ DOMAIN F.queryFillersForm # {} \/ DOMAIN F.deepObjectFillersForm # {}
    /\ r.req.ct = ContentTypeForm
    /\ r.req.form.ok

MemberNames == {<<"a">>, <<"b">>}

\* the roots n, among roots, that key is a bracket key n[k] of
RootsOf(key, roots) == {n \in roots : \E k \in MemberNames : key = Bracket(n, k)}

\* the steps that follow one another from r and d, to the end of the run:
\* what the run returns when nothing else runs
StepsOf(r, d) ==
    CASE r.pc = "body" -> BodyStep(r, d)
      [] r.pc = "path" -> PathStep(r, d)
      [] r.pc = "header" -> HeaderStep(r, d)
      [] r.pc = "query" -> QueryStep(r, d)
      [] r.pc = "form" -> FormStep(r, d)
      [] r.pc = "deep" -> DeepStep(r, d)
      [] r.pc = "cookie" -> CookieStep(r, d)
      [] r.pc = "return" -> ReturnStep(r, d)
      [] OTHER -> {}

Returned(r) == [pc |-> r.pc, model |-> r.model, ev |-> r.ev]

RECURSIVE Outcomes(_, _)
Outcomes(r, d) ==
    IF Over(r) THEN {Returned(r)}
    ELSE UNION {Outcomes(nx.r, nx.d) : nx \in StepsOf(r, d)}

-----------------------------------------------------------------------------
(* C1: in every run the steps are taken in the order body, path, header,    *)
(* URL query, form body, buffered deep objects, cookie; the error the run   *)
(* holds is at all times the error of the first call that failed, a later   *)
(* failure never replaces it, and it is the error the returned value wraps. *)
FirstErrorReturned ==
    \A i \in Runs :
        LET r == runs[i]
        IN /\ \A a, b \in DOMAIN r.trace :
                 a < b => PhaseRank(r.trace[a].src) <= PhaseRank(r.trace[b].src)
           /\ r.err = FirstFailure(r)
           /\ r.pc = "done" =>
                 /\ (r.ev = NoError) = (Failures(r) = {})
                 /\ Wraps(r.ev, FirstFailure(r))

\* a header filler and a cookie filler both failed, and the run returned the
\* header's error
HeaderErrorBeforeCookieError ==
    \E i \in Runs :
        LET r == runs[i]
        IN /\ r.pc = "done"
           /\ \E a, b \in DOMAIN r.trace :
                 /\ r.trace[a].src = "header" /\ r.trace[a].err # NoError
                 /\ r.trace[b].src = "cookie" /\ r.trace[b].err # NoError
                 /\ a = Min(Failures(r))
                 /\ r.trace[b].err # r.trace[a].err
                 /\ Wraps(r.ev, r.trace[a].err)

\* every filler the request gives work to has been called
EveryFillerInvoked(r) ==
    /\ \A j \in InSeq(F.bodyFillers) : Invoked(r, "body", j)
    /\ \A j \in InSeq(F.varsFillers) : Invoked(r, "path", j)
    /\ \A j \in InSeq(F.headerFillers) : Invoked(r, "header", j)
    /\ \A j \in InSeq(F.cookieFillers) : Invoked(r, "cookie", j)
    /\ \A key \in DOMAIN r.req.query :
          IF key \in DOMAIN F.queryFillers
          THEN Invoked(r, "query", F.queryFillers[key])
          ELSE \A n \in RootsOf(key, DOMAIN F.deepObjectFillers) :
                  Invoked(r, "deep", F.deepObjectFillers[n])
    /\ FormRan(r) =>
          \A key \in DOMAIN r.req.form.values :
             IF key \in DOMAIN F.queryFillersForm
             THEN Invoked(r, "form", F.queryFillersForm[key])
             ELSE \A n \in RootsOf(key, DOMAIN F.deepObjectFillersForm) :
                     Invoked(r, "deep", F.deepObjectFillersForm[n])

(* C2: when a run is over and one of its fillers failed, every body, path,  *)
(* header and cookie filler of the binder and the filler of every query and *)
(* form key of the request has been called.                                 *)
FailureNeverStopsResolver ==
    \A i \in Runs :
        Over(runs[i]) /\ Failures(runs[i]) # {} => EveryFillerInvoked(runs[i])

\* C2, of the runs that return: whatever failed, every filler has been called
FailureNeverStopsReturningRun ==
    \A i \in Runs : runs[i].pc = "done" => EveryFillerInvoked(runs[i])

\* the body filler failed first, and the run went on to fill the cookie's field
CookieFilledAfterBodyFailure ==
    \E i \in Runs :
        LET r == runs[i]
        IN /\ r.pc = "done"
           /\ typ = 1
           /\ Failures(r) # {}
           /\ r.trace[Min(Failures(r))].src = "body"
           /\ r.model[4] = 7

(* C3: when a run is over, it has returned a non-nil error if and only if   *)
(* one of its calls failed, and the return code of a non-nil error is 400.  *)
ErrorIffFailure ==
    \A i \in Runs :
        Over(runs[i]) =>
            /\ (runs[i].ev # NoError) = (Failures(runs[i]) # {})
            /\ runs[i].ev # NoError => GetReturnCode(runs[i].ev) = 400

\* C3, of the runs that return
ErrorIffFailureReturned ==
    \A i \in Runs :
        runs[i].pc = "done" =>
            /\ (runs[i].ev # NoError) = (Failures(runs[i]) # {})
            /\ runs[i].ev # NoError => GetReturnCode(runs[i].ev) = 400

\* a run whose only failure is that no body decoder is registered
NoDecoderIsBadRequest ==
    \E i \in Runs :
        LET r == runs[i]
        IN /\ r.pc = "done"
           /\ Cardinality(Failures(r)) = 1
           /\ \E n \in Failures(r) :
                 r.trace[n].src = "body" /\ Cause(r.trace[n].err).text = <<"no decoder">>
           /\ GetReturnCode(r.ev) = 400

(* C4: the compiled binder is never written to, and every run that is over, *)
(* whatever ran between its steps, ended as the same request ends when its  *)
(* steps follow one another with nothing in between.                        *)
RunsIndependent ==
    binder.status = "ok" =>
        /\ binder = GenerateDecoder(Fields, options)
        /\ \A i \in Runs :
              Over(runs[i]) => Returned(runs[i]) \in Outcomes(StartRun(runs[i].req), << >>)

\* two runs are between their steps at once, each with its own deep objects,
\* after another run has returned a deep object
TwoRunsBuffering ==
    /\ runs[1].pc = "deep"
    /\ runs[2].pc = "deep"
    /\ D(1) # << >> /\ D(2) # << >>
    /\ D(1) # D(2)

\* a key of the URL query that is no query filler's name and no bracket key
\* of a deep object's root
UnknownKey(key) ==
    /\ key \notin DOMAIN F.queryFillers
    /\ RootsOf(key, DOMAIN F.deepObjectFillers) = {}

\* what C5 says of the unknown keys of the run's request: in strict mode an
\* error is returned; otherwise the run ends as it does without the key
UnknownKeysHandled(r) ==
    \A key \in DOMAIN r.req.query :
        UnknownKey(key) =>
            IF options.rejectUnknownQueryParameters
            THEN r.ev # NoError
            ELSE /\ \A n \in DOMAIN r.trace :
                       r.trace[n].src = "query" /\ r.trace[n].key = key =>
                           r.trace[n].field = 0 /\ r.trace[n].err = NoError
                 /\ Returned(r) \in
                       Outcomes(StartRun([r.req EXCEPT !.query = Delete(@, key)]), << >>)

(* C5: when a run is over, a key of its URL query that matches no query     *)
(* filler and no deep-object root has changed nothing if strict mode is off *)
(* and has made the run return an error if strict mode is on.               *)
UnknownKeyIgnoredOrRejected == \A i \in Runs : Over(runs[i]) => UnknownKeysHandled(runs[i])

\* C5, of the runs that return
UnknownKeyIgnoredOrRejectedReturned ==
    \A i \in Runs : runs[i].pc = "done" => UnknownKeysHandled(runs[i])

\* a strict binder returned an error for a request whose only fault is a key
\* nothing is registered for
UnknownKeyRejected ==
    \E i \in Runs :
        LET r == runs[i]
        IN /\ r.pc = "done"
           /\ options.rejectUnknownQueryParameters
           /\ NameZ \in DOMAIN r.req.query
           /\ Cardinality(Failures(r)) = 1
           /\ r.trace[Min(Failures(r))].key = NameZ
           /\ r.ev # NoError

\* the query fields the form body may supply, and those only it may supply
FormFields ==
    {j \in 1..Len(Fields) :
        /\ Fields[j].tagged
        /\ Fields[j].fill.Base = "query"
        /\ Fields[j].fill.Form \/ Fields[j].fill.FormOnly}

FormOnlyFields == {j \in FormFields : Fields[j].fill.FormOnly}

\* the run as it was before field j was filled
Unfilled(r, j) == [r EXCEPT !.model[j] = Zero(Fields[j].type)]

\* the members of the deep object n that the values supply
MembersIn(values, n) == {k \in MemberNames : Bracket(n, k) \in DOMAIN values}

\* the values field j can get from the form body of the run's request
FormValues(r, j) ==
    LET n == ParamName(Fields[j])
        form == r.req.form.values
    IN IF ~FormRan(r) THEN {Zero(Fields[j].type)}
       ELSE IF CapOf(j) = "deepObject"
       THEN IF MembersIn(form, n) = {} THEN {Zero(Fields[j].type)}
            ELSE {res.val :
                     res \in deepObjectFiller(Unfilled(r, j), j,
                                [k \in MembersIn(form, n) |-> form[Bracket(n, k)]])}
       ELSE IF n \notin DOMAIN form THEN {Zero(Fields[j].type)}
       ELSE {queryFiller(Unfilled(r, j), j, form[n]).val}

(* C6: a formOnly field's filler is never called for the URL query; the     *)
(* field holds its zero value or a value the form body gives, and in the    *)
(* returned model it holds what the form body gives whatever the URL query  *)
(* holds.                                                                   *)
FormOnlyNeverFromQuery ==
    \A i \in Runs :
        runs[i].pc # "idle" =>
            \A j \in FormOnlyFields :
                /\ ~Invoked(runs[i], "query", j)
                /\ \/ runs[i].model[j] = Zero(Fields[j].type)
                   \/ runs[i].model[j] \in FormValues(runs[i], j)
                /\ runs[i].pc = "done" => runs[i].model[j] \in FormValues(runs[i], j)

\* the URL query gives c=7 and the form body c=8: the returned field holds 8
FormOnlyFieldFromFormNotQuery ==
    \E i \in Runs :
        LET r == runs[i]
        IN /\ r.pc = "done"
           /\ typ = 2
           /\ NameC \in DOMAIN r.req.query
           /\ r.req.query[NameC] = <<Str7>>
           /\ FormRan(r)
           /\ NameC \in DOMAIN r.req.form.values
           /\ r.model[3] = 8

(* C7: the form body is handled only by a binder that has a form filler and *)
(* only for a request whose Content-Type is application/x-www-form-         *)
(* urlencoded exactly; for any other Content-Type no step of the run comes  *)
(* from the form and the returned formOnly fields hold their zero values.   *)
FormFallbackOnlyForExactContentType ==
    \A i \in Runs :
        LET r == runs[i]
        IN r.pc # "idle" =>
              /\ (r.pc = "form" \/ \E n \in DOMAIN r.trace : r.trace[n].src = "form") =>
                    /\ FormFields # {}
                    /\ r.req.ct = "application/x-www-form-urlencoded"
              /\ r.pc = "done" /\ r.req.ct # "application/x-www-form-urlencoded" =>
                    \A j \in FormOnlyFields : r.model[j] = Zero(Fields[j].type)

\* a form body that supplies c, under a Content-Type with a charset parameter:
\* the field is left at zero and no error is returned
FormBodyNotParsedForCharsetContentType ==
    \E i \in Runs :
        LET r == runs[i]
        IN /\ r.pc = "done"
           /\ typ = 2
           /\ r.req.ct = ContentTypeFormCharset
           /\ r.req.form.ok
           /\ NameC \in DOMAIN r.req.form.values
           /\ r.req.form.values[NameC] = <<Str7>>
           /\ r.model[3] = 0
           /\ r.ev = NoError

\* what C8 says of the run: the form and formOnly fields its form body
\* supplies and its URL query does not have been filled from it
FormSupplied(r) ==
    \A j \in FormFields :
        LET n == ParamName(Fields[j])
        IN IF CapOf(j) = "deepObject"
           THEN MembersIn(r.req.form.values, n) # {} /\ MembersIn(r.req.query, n) = {} =>
                    /\ Invoked(r, "deep", j)
                    /\ r.model[j] \in FormValues(r, j)
           ELSE n \in DOMAIN r.req.form.values /\ n \notin DOMAIN r.req.query =>
                    /\ Invoked(r, "form", j)
                    /\ r.model[j] \in FormValues(r, j)

(* C8: when the run of a request with a form body is over, every form or    *)
(* formOnly field that the body supplies and the URL query does not, be its *)
(* unpacker single, multi or deepObject, has been filled from the body.     *)
FormFieldsPopulated ==
    \A i \in Runs : Over(runs[i]) /\ FormRan(runs[i]) => FormSupplied(runs[i])

\* C8, of the runs that return
FormFieldsPopulatedReturned ==
    \A i \in Runs : runs[i].pc = "done" /\ FormRan(runs[i]) => FormSupplied(runs[i])

\* the form body supplied a member of a formOnly deep object and the run
\* panicked at the dispatch
FormOnlyDeepObjectPanics ==
    \E i \in Runs :
        LET r == runs[i]
        IN /\ r.pc = "panic"
           /\ typ = 4
           /\ FormRan(r)
           /\ MembersIn(r.req.form.values, NameM) # {}
           /\ r.model[1] = NilMap

\* the members of the deep object n that the URL query and the form body of
\* the run's request name with a bracket key n[k] that is no filler's name
QueryMembers(r, n) ==
    IF n \notin DOMAIN F.deepObjectFillers THEN {}
    ELSE {k \in MembersIn(r.req.query, n) : Bracket(n, k) \notin DOMAIN F.queryFillers}

FormMembers(r, n) ==
    IF ~FormRan(r) \/ n \notin DOMAIN F.deepObjectFillersForm THEN {}
    ELSE {k \in MembersIn(r.req.form.values, n) :
             Bracket(n, k) \notin DOMAIN F.queryFillersForm}

\* the map k -> values of the deep object n: the form body's values replace
\* the URL query's
Buffered(r, n) ==
    [k \in QueryMembers(r, n) \cup FormMembers(r, n) |->
        IF k \in FormMembers(r, n) THEN r.req.form.values[Bracket(n, k)]
        ELSE r.req.query[Bracket(n, k)]]

BufferedAll(r) ==
    [n \in {m \in DOMAIN F.deepObjectFillers \cup DOMAIN F.deepObjectFillersForm :
               QueryMembers(r, m) \cup FormMembers(r, m) # {}} |-> Buffered(r, n)]

\* decode(v) for the members of the deep objects here, which are integers: v
\* is the first of the member's values
First(values) == IF Len(values) > 0 THEN values[1] ELSE Empty

AllDecode(mv) == \A k \in DOMAIN mv : ParseInt(First(mv[k])).ok

DecodedMap(mv) == [nil |-> FALSE, m |-> [k \in DOMAIN mv |-> ParseInt(First(mv[k])).v]]

\* the deep object mv has been decoded into the value val of a field of type
\* t by a call that returned err
DecodedInto(t, val, err, mv) ==
    CASE t = "map[string]int" ->
           IF AllDecode(mv) THEN val = DecodedMap(mv) /\ err = NoError
           ELSE val = NilMap /\ err # NoError
      [] t = "*map[string]int" ->
           IF AllDecode(mv) THEN val = [nil |-> FALSE, p |-> DecodedMap(mv)] /\ err = NoError
           ELSE val = [nil |-> FALSE, p |-> NilMap] /\ err # NoError
      [] t = "Pair" ->
           /\ err = NoError <=> AllDecode(mv)
           /\ \A k \in DOMAIN val :
                 \/ k \in DOMAIN mv /\ ParseInt(First(mv[k])).ok
                       /\ val[k] = ParseInt(First(mv[k])).v
                 \/ val[k] = 0 /\ (k \notin DOMAIN mv \/ ~AllDecode(mv))

(* C9: after the URL query and the form body have been handled, the run's   *)
(* deepObjects hold, for every deep-object field n, exactly the bracket     *)
(* keys n[k] of the request as one map k -> values; the returned field      *)
(* holds k = decode(v) for each of them (v the first value of n[k]; nothing *)
(* is set and an error is returned when one of them does not decode); and a *)
(* key that is a query filler's name is given to that filler and is not     *)
(* buffered.                                                                *)
DeepObjectBuffered ==
    \A i \in Runs :
        LET r == runs[i]
        IN /\ r.pc \in {"deep", "cookie", "return", "done", "panic"} =>
                 D(i) = BufferedAll(r)
           /\ r.pc = "done" =>
                 /\ \A n \in DOMAIN F.deepObjectFillers :
                       IF n \in DOMAIN BufferedAll(r)
                       THEN \E c \in DOMAIN r.trace :
                               /\ r.trace[c].src = "deep"
                               /\ r.trace[c].field = F.deepObjectFillers[n]
                               /\ DecodedInto(Fields[F.deepObjectFillers[n]].type,
                                              r.model[F.deepObjectFillers[n]],
                                              r.trace[c].err, Buffered(r, n))
                       ELSE /\ ~Invoked(r, "deep", F.deepObjectFillers[n])
                            /\ r.model[F.deepObjectFillers[n]] =
                                  Zero(Fields[F.deepObjectFillers[n]].type)
                 /\ \A key \in DOMAIN r.req.query \cap DOMAIN F.queryFillers :
                       \E c \in DOMAIN r.trace :
                          /\ r.trace[c].src = "query"
                          /\ r.trace[c].key = key
                          /\ r.trace[c].field = F.queryFillers[key]

\* the query m[a]=7&m[b]=8&m[b]=7 for a type with a parameter named m[a] and a
\* deep object m: the parameter is 7 and the deep object is {b: 8}
BracketNamedParameterAndDeepObject ==
    \E i \in Runs :
        LET r == runs[i]
        IN /\ r.pc = "done"
           /\ typ = 6
           /\ DOMAIN r.req.query = {KeyMA, KeyMB}
           /\ r.req.query[KeyMA] = <<Str7>>
           /\ r.req.query[KeyMB] = <<Str8, Str7>>
           /\ r.model[1] = 7
           /\ r.model[2] = [nil |-> FALSE, p |-> [nil |-> FALSE, m |-> (<<"b">> :> 8)]]

\* the fields of the type tagged model
ModelFields ==
    {j \in 1..Len(Fields) : Fields[j].tagged /\ Fields[j].fill.Base = "model"}

\* no field of the type fails to compile on its own account
FieldsCompile ==
    /\ \A j \in 1..Len(Fields) :
          Fields[j].tagged /\ Fields[j].fill.Base # "model" =>
              /\ TagsOf(j).Err = NoError
              /\ getUnpacker(Fields[j].type, TagsOf(j).Base, TagsOf(j), options).err
                    = NoError
    /\ "path" \in Bases(typ) => options.pathVarFunction = "valid"

(* C10 as it is written: a type with more than one field tagged model does  *)
(* not compile.                                                             *)
DuplicateModelIsCompileError ==
    Cardinality(ModelFields) > 1 /\ binder.status # "none" => binder.status = "error"

(* C10 as the code has it: a type with more than one field tagged model     *)
(* compiles when its other fields do, the binder has one body filler for    *)
(* each model field, and every run that returns has called each of them.    *)
DuplicateModelCompiles ==
    Cardinality(ModelFields) > 1 /\ binder.status # "none" /\ FieldsCompile =>
        /\ binder.status = "ok"
        /\ Len(F.bodyFillers) = Cardinality(ModelFields)
        /\ InSeq(F.bodyFillers) = ModelFields
        /\ \A i \in Runs :
              runs[i].pc = "done" => \A j \in ModelFields : Invoked(runs[i], "body", j)

\* a run of the binder of a type with two model fields decoded the body into
\* both
BothModelFieldsDecoded ==
    \E i \in Runs :
        /\ typ = 5
        /\ Cardinality(ModelFields) = 2
        /\ binder.status = "ok"
        /\ runs[i].pc = "done"
        /\ runs[i].model[1] = ContentTypeJSON
        /\ runs[i].model[2] = ContentTypeJSON

\* the fields j and k of the type are of the same source kind and resolve to
\* the same parameter name
SameName(j, k) ==
    /\ j # k
    /\ Fields[j].tagged /\ Fields[k].tagged
    /\ Fields[j].fill.Base \in {"query", "header", "path", "cookie"}
    /\ Fields[j].fill.Base = Fields[k].fill.Base
    /\ ParamName(Fields[j]) = ParamName(Fields[k])

(* C11: a type in which two fields of the same source kind resolve to the   *)
(* same parameter name does not compile.                                    *)
DuplicateNameIsCompileError ==
    (\E j, k \in 1..Len(Fields) : SameName(j, k)) /\ binder.status # "none" =>
        binder.status = "error"

\* C11, of the members of a struct that is a field's type: two members with
\* the same name fail the compilation of the field
DuplicateMemberIsCompileError ==
    /\ binder.status # "none"
    /\ Fields[1].type = "Dup"
    /\ Fields[1].fill.Content = ""
    => binder.status = "error"

\* the type with two query fields named a compiled, and the run of a request
\* with a=7 returned without an error, the first of the two fields not filled
DuplicateQueryNameLosesField ==
    \E i \in Runs :
        LET r == runs[i]
        IN /\ typ = 9
           /\ SameName(1, 2)
           /\ binder.status = "ok"
           /\ r.pc = "done"
           /\ NameA \in DOMAIN r.req.query
           /\ r.req.query[NameA] = <<Str7>>
           /\ r.ev = NoError
           /\ r.model[1] = 0
           /\ r.model[2] = 7

\* the fields of the type that have no tag or are tagged "-"
SkippedFields == {j \in 1..Len(Fields) : ~Fields[j].tagged \/ Fields[j].fill.Base = "-"}

IsKept(f) == f.tagged /\ f.fill.Base # "-"

\* no filler of the binder is a filler of field j
NoFillerOf(j) ==
    /\ j \notin InSeq(F.bodyFillers) \cup InSeq(F.varsFillers)
             \cup InSeq(F.headerFillers) \cup InSeq(F.cookieFillers)
    /\ \A n \in DOMAIN F.queryFillers : F.queryFillers[n] # j
    /\ \A n \in DOMAIN F.queryFillersForm : F.queryFillersForm[n] # j
    /\ \A n \in DOMAIN F.deepObjectFillers : F.deepObjectFillers[n] # j
    /\ \A n \in DOMAIN F.deepObjectFillersForm : F.deepObjectFillersForm[n] # j

\* what C12 says of the fields without a tag: they change nothing
UntaggedFieldsSkipped ==
    /\ binder.status # "none" =>
          /\ \A j \in SkippedFields : NoFillerOf(j)
          /\ \A i \in Runs :
                runs[i].pc # "idle" =>
                    \A j \in SkippedFields : runs[i].model[j] = Zero(Fields[j].type)

(* C12: a field that has no tag or is tagged "-" is skipped: the type       *)
(* compiles exactly when it compiles without the field, whatever the type   *)
(* of the field, no filler is made for the field, and no run writes it.     *)
SkippedFieldIsSkipped ==
    /\ UntaggedFieldsSkipped
    /\ binder.status # "none" =>
          binder.status = GenerateDecoder(SelectSeq(Fields, IsKept), options).status

\* C12, of the fields tagged "-" whose type an unpacker can be built for and
\* of the fields without a tag
SkippedDecodableFieldIsSkipped ==
    (\A j \in SkippedFields :
        Fields[j].tagged =>
            getUnpacker(Fields[j].type, "-", TagsOf(j), options).err = NoError)
    => SkippedFieldIsSkipped

\* a type that compiles without its field tagged "-", a channel, does not
\* compile with it
DashFieldFailsCompilation ==
    /\ typ = 11
    /\ SkippedFields = {2}
    /\ Fields[2].type = "chan int"
    /\ GenerateDecoder(SelectSeq(Fields, IsKept), options).status = "ok"
    /\ binder.status = "error"
    /\ Cause(binder.err).text = <<"does not implement UnmarshalText">>

\* what C13 says of the tag fill and of what parseTag makes of it
ExplodeAndDelimiterOf(fill, tags) ==
    /\ fill.ExplodeP # << >> => tags.Explode = fill.ExplodeP[1]
    /\ fill.ExplodeP = << >> => (tags.Explode <=> fill.Base \in {"query", "header"})
    /\ fill.Delimiter = << >> => tags.Delimiter = <<",">>
    /\ fill.Delimiter = << <<"c", "o", "m", "m", "a">> >> => tags.Delimiter = <<",">>
    /\ fill.Delimiter = << <<"p", "i", "p", "e">> >> => tags.Delimiter = <<"|">>
    /\ fill.Delimiter = << <<"s", "p", "a", "c", "e">> >> => tags.Delimiter = <<" ">>
    /\ /\ fill.Delimiter # << >>
       /\ fill.Delimiter[1] \notin {<<"c", "o", "m", "m", "a">>, <<"p", "i", "p", "e">>,
                                     <<"s", "p", "a", "c", "e">>}
       => tags.Delimiter = fill.Delimiter[1]

(* C13: the tag of every field the compilation has parsed has Explode equal *)
(* to the explode= value when there is one and otherwise true exactly for   *)
(* the bases query and header, and has the delimiter "," when none is       *)
(* given, ",", "|" and " " for comma, pipe and space, and any other         *)
(* delimiter as it is written.                                              *)
ExplodeAndDelimiterDefaults ==
    binder.status # "none" =>
        \A j \in 1..Len(Fields) :
            Fields[j].tagged => ExplodeAndDelimiterOf(Fields[j].fill, TagsOf(j))

\* a query field tagged explode=false,delimiter=pipe: the value 7|8 has been
\* split at the "|"
PipeDelimiterSplitsValue ==
    \E i \in Runs :
        LET r == runs[i]
        IN /\ r.pc = "done"
           /\ Fields[1].type = "[]int"
           /\ Fields[1].fill.Base = "query"
           /\ Fields[1].fill.ExplodeP = <<FALSE>>
           /\ Fields[1].fill.Delimiter = << <<"p", "i", "p", "e">> >>
           /\ ~TagsOf(1).Explode
           /\ TagsOf(1).Delimiter = <<"|">>
           /\ r.req.query = (NameM :> <<Str7Pipe8>>)
           /\ r.model[1] = [nil |-> FALSE, elems |-> <<7, 8>>]

\* field j is a cookie or path field of compound type whose tag sets a
\* delimiter other than the comma or sets explode=true
OverridesInCookieOrPath(j) ==
    /\ Fields[j].tagged
    /\ Fields[j].fill.Base \in {"cookie", "path"}
    /\ Kind(Fields[j].type) \in {"slice", "array", "map", "struct"}
    /\ TagsOf(j).Delimiter # <<",">> \/ Fields[j].fill.ExplodeP = <<TRUE>>

(* C14: a type with a cookie or path field of slice, array, map or struct   *)
(* type whose tag sets a delimiter other than the comma or explode=true     *)
(* does not compile.                                                        *)
CookiePathOverridesRejected ==
    binder.status # "none" /\ (\E j \in 1..Len(Fields) : OverridesInCookieOrPath(j)) =>
        binder.status = "error"

\* C14, of the fields the code checks: a slice or an array with either
\* setting and a map with a delimiter, none with a content= tag
SliceCookiePathOverridesRejected ==
    binder.status # "none" =>
        \A j \in 1..Len(Fields) :
            /\ OverridesInCookieOrPath(j)
            /\ Fields[j].fill.Content = ""
            /\ \/ Kind(Fields[j].type) \in {"slice", "array"}
               \/ Kind(Fields[j].type) = "map" /\ TagsOf(j).Delimiter # <<",">>
            => /\ binder.status = "error"
               /\ Cause(binder.err).text \in
                     {<<"delimiter setting is only allowed for 'query' parameters">>,
                      <<"explode=true not supported for cookies & path parameters">>}

\* a cookie field of map type tagged explode=true has compiled
CookieMapExplodeCompiles ==
    /\ Len(Fields) = 1
    /\ OverridesInCookieOrPath(1)
    /\ Fields[1].type = "map[string]int"
    /\ Fields[1].fill.Base = "cookie"
    /\ Fields[1].fill.ExplodeP = <<TRUE>>
    /\ Fields[1].fill.Delimiter = << >>
    /\ Fields[1].fill.Content = ""
    /\ ~Fields[1].fill.DeepObject
    /\ binder.status = "ok"
    /\ F.cookieFillers = <<1>>

\* the struct that is the type of field j has a member tagged deepObject=true
DeepObjectMember(j) ==
    \E n \in DOMAIN StructFields(Deref(Fields[j].type)) :
        StructFields(Deref(Fields[j].type))[n].fill.DeepObject

\* deepObject=true is where C15 says it must not be: on field j when it is
\* not a query field of map or struct type without content=, or on a member
\* of the struct that is its type
DeepObjectMisplaced(j) ==
    /\ Fields[j].tagged
    /\ Fields[j].fill.Base \in {"query", "header", "path", "cookie"}
    /\ \/ /\ Fields[j].fill.DeepObject
          /\ \/ Fields[j].fill.Base # "query"
             \/ Kind(Deref(Fields[j].type)) \notin {"map", "struct"}
             \/ Fields[j].fill.Content # ""
       \/ DeepObjectMember(j)

(* C15: a type does not compile when deepObject=true is on a field that is  *)
(* not a query field of map or struct type (a scalar, a pointer to a        *)
(* scalar, a slice, an array, a field with content=, a path, header or      *)
(* cookie field) or on a member of a struct that is a field's type.         *)
DeepObjectOnlyOnQueryMapOrStruct ==
    binder.status # "none" /\ (\E j \in 1..Len(Fields) : DeepObjectMisplaced(j)) =>
        binder.status = "error"

\* C15, of the fields the code checks, none with a content= tag: a slice or
\* an array, a map or a struct outside the query, a member of a struct
DeepObjectRejectedWhereChecked ==
    binder.status # "none" =>
        \A j \in 1..Len(Fields) :
            /\ DeepObjectMisplaced(j)
            /\ Fields[j].fill.Content = ""
            /\ \/ DeepObjectMember(j)
               \/ Kind(Deref(Fields[j].type)) \in {"slice", "array"}
               \/ /\ Kind(Deref(Fields[j].type)) \in {"map", "struct"}
                  /\ Fields[j].fill.Base # "query"
            => binder.status = "error"

\* a query field of type int tagged deepObject=true has compiled as a plain
\* query parameter, and a run has filled it with m=7
ScalarDeepObjectCompiles ==
    \E i \in Runs :
        LET r == runs[i]
        IN /\ Len(Fields) = 1
           /\ DeepObjectMisplaced(1)
           /\ Fields[1].type = "int"
           /\ Fields[1].fill.Base = "query"
           /\ Fields[1].fill.DeepObject
           /\ Fields[1].fill.Content = ""
           /\ binder.status = "ok"
           /\ DOMAIN F.deepObjectFillers = {}
           /\ F.queryFillers = (NameM :> 1)
           /\ r.pc = "done"
           /\ r.req.query = (NameM :> <<Str7>>)
           /\ r.model[1] = 7
           /\ r.ev = NoError

-----------------------------------------------------------------------------
(* What the request holds for a field, and what its text stands for, told   *)
(* without the unpackers.                                                   *)

\* the request of run r holds the parameter of field j
Present(r, j) ==
    CASE Fields[j].fill.Base = "query" -> ParamName(Fields[j]) \in DOMAIN r.req.query
      [] Fields[j].fill.Base = "header" -> ParamName(Fields[j]) \in DOMAIN r.req.header
      [] Fields[j].fill.Base = "path" -> ParamName(Fields[j]) \in DOMAIN r.req.path
      [] Fields[j].fill.Base = "cookie" -> ParamName(Fields[j]) \in DOMAIN r.req.cookie
      [] OTHER -> FALSE

\* the occurrences of the parameter of field j, in the order of the request;
\* a path variable and a cookie occur once
Occurrences(r, j) ==
    CASE Fields[j].fill.Base = "query" -> r.req.query[ParamName(Fields[j])]
      [] Fields[j].fill.Base = "header" -> r.req.header[ParamName(Fields[j])]
      [] Fields[j].fill.Base = "path" -> <<r.req.path[ParamName(Fields[j])]>>
      [] Fields[j].fill.Base = "cookie" -> <<r.req.cookie[ParamName(Fields[j])]>>

\* the k-th smallest element of a set of numbers
NthOf(S, k) == CHOOSE x \in S : Cardinality({y \in S : y < x}) = k - 1

\* the places of the character c in v, and the ends of v
Cuts(v, c) == {i \in 1..Len(v) : v[i] = c} \cup {0, Len(v) + 1}

\* the pieces of v between the occurrences of the character c, in order
Pieces(v, c) ==
    [k \in 1..(Cardinality(Cuts(v, c)) - 1) |->
        SubSeq(v, NthOf(Cuts(v, c), k) + 1, NthOf(Cuts(v, c), k + 1) - 1)]

\* every text of the sequence is a number, and the numbers
AllNumbers(texts) == \A k \in DOMAIN texts : ParseInt(texts[k]).ok

Numbers(texts) == [k \in DOMAIN texts |-> ParseInt(texts[k]).v]

\* the call of the filler of field j in the trace of r
CallOf(r, j) == CHOOSE c \in DOMAIN r.trace : r.trace[c].field = j

\* field j is compiled without a content decoder
Plain(j) == Fields[j].tagged /\ Fields[j].fill.Content = ""

(* C16: a slice field under query or header with explode=true holds, when   *)
(* the run returns, one element per occurrence of the parameter, in their   *)
(* order, each the number its occurrence alone stands for; when an          *)
(* occurrence is no number the slice is left unset and an error returned.   *)
ExplodedSliceOnePerOccurrence ==
    \A i \in Runs :
        LET r == runs[i]
        IN r.pc = "done" =>
              \A j \in 1..Len(Fields) :
                  /\ Plain(j) /\ Fields[j].type = "[]int"
                  /\ Fields[j].fill.Base \in {"query", "header"}
                  /\ ~Fields[j].fill.FormOnly
                  /\ TagsOf(j).Explode
                  /\ Present(r, j)
                  => IF AllNumbers(Occurrences(r, j))
                     THEN /\ ~r.model[j].nil
                          /\ Len(r.model[j].elems) = Len(Occurrences(r, j))
                          /\ r.model[j].elems = Numbers(Occurrences(r, j))
                          /\ r.trace[CallOf(r, j)].err = NoError
                     ELSE /\ r.model[j] = NilSlice
                          /\ r.ev # NoError

\* the query m=7&m=8&m=7 has been decoded into the slice [7, 8, 7]
ThreeOccurrencesThreeElements ==
    \E i \in Runs :
        LET r == runs[i]
        IN /\ r.pc = "done"
           /\ Len(Fields) = 1
           /\ Fields[1].type = "[]int"
           /\ Fields[1].fill.Base = "query"
           /\ Fields[1].fill.Content = ""
           /\ TagsOf(1).Explode
           /\ r.req.query = (NameM :> <<Str7, Str8, Str7>>)
           /\ r.model[1] = [nil |-> FALSE, elems |-> <<7, 8, 7>>]
           /\ r.ev = NoError

(* C17: a slice field with explode=false holds, when the run returns, the   *)
(* pieces of the first raw value of the parameter between the occurrences   *)
(* of the delimiter, in order: one more element than the value has          *)
(* delimiters; the other raw values are not used; when a piece is no number *)
(* the slice is left unset and an error returned.                           *)
UnexplodedSliceSplitsOneValue ==
    \A i \in Runs :
        LET r == runs[i]
        IN r.pc = "done" =>
              \A j \in 1..Len(Fields) :
                  /\ Plain(j) /\ Fields[j].type = "[]int"
                  /\ Fields[j].fill.Base \in {"query", "header", "path", "cookie"}
                  /\ ~Fields[j].fill.FormOnly
                  /\ ~TagsOf(j).Explode
                  /\ Present(r, j)
                  => IF AllNumbers(Pieces(Occurrences(r, j)[1], TagsOf(j).Delimiter[1]))
                     THEN /\ ~r.model[j].nil
                          /\ Len(r.model[j].elems) =
                                Cardinality({n \in 1..Len(Occurrences(r, j)[1]) :
                                    Occurrences(r, j)[1][n] = TagsOf(j).Delimiter[1]}) + 1
                          /\ r.model[j].elems =
                                Numbers(Pieces(Occurrences(r, j)[1], TagsOf(j).Delimiter[1]))
                          /\ r.trace[CallOf(r, j)].err = NoError
                     ELSE /\ r.model[j] = NilSlice
                          /\ r.ev # NoError

\* the query m=7,8&m=7 for a field tagged explode=false has been decoded
\* into [7, 8]: the second raw value is not used
SecondRawValueNotUsed ==
    \E i \in Runs :
        LET r == runs[i]
        IN /\ r.pc = "done"
           /\ Len(Fields) = 1
           /\ Fields[1].type = "[]int"
           /\ Fields[1].fill.Base = "query"
           /\ Fields[1].fill.Content = ""
           /\ ~TagsOf(1).Explode
           /\ TagsOf(1).Delimiter = <<",">>
           /\ r.req.query = (NameM :> <<Str78, Str7>>)
           /\ r.model[1] = [nil |-> FALSE, elems |-> <<7, 8>>]
           /\ r.ev = NoError

\* the values an unpacker of a slice or an array of field j is given: the
\* occurrences when it explodes, else the pieces of the first raw value
Supplied(r, j) ==
    IF TagsOf(j).Explode /\ Fields[j].fill.Base \in {"query", "header"}
    THEN Occurrences(r, j)
    ELSE Pieces(Occurrences(r, j)[1], TagsOf(j).Delimiter[1])

(* C18: a field of type [2]int that is given k values holds, when the run   *)
(* returns: for k > 2 the zero array, nothing written, and the run returns  *)
(* the error of the overflow; for k <= 2 values that are numbers, the       *)
(* numbers in its first k slots and zero in the others, without an error.   *)
ArrayOverflowAndUnderflow ==
    \A i \in Runs :
        LET r == runs[i]
        IN r.pc = "done" =>
              \A j \in 1..Len(Fields) :
                  /\ Plain(j) /\ Fields[j].type = "[2]int"
                  /\ ~Fields[j].fill.FormOnly
                  /\ Present(r, j)
                  => IF Len(Supplied(r, j)) > 2
                     THEN /\ r.model[j] = <<0, 0>>
                          /\ Cause(r.trace[CallOf(r, j)].err).text =
                                <<"too many values for fixed length array">>
                          /\ r.ev # NoError
                     ELSE IF AllNumbers(Supplied(r, j))
                     THEN /\ r.model[j] =
                                [n \in 1..2 |-> IF n <= Len(Supplied(r, j))
                                                THEN Numbers(Supplied(r, j))[n] ELSE 0]
                          /\ r.trace[CallOf(r, j)].err = NoError
                     ELSE r.ev # NoError

\* the query m=7&m=8&m=7 for a field of type [2]int: an error, nothing written
ThreeValuesIntoTwoSlots ==
    \E i \in Runs :
        LET r == runs[i]
        IN /\ r.pc = "done"
           /\ Len(Fields) = 1
           /\ Fields[1].type = "[2]int"
           /\ Fields[1].fill.Base = "query"
           /\ Fields[1].fill.Content = ""
           /\ TagsOf(1).Explode
           /\ r.req.query = (NameM :> <<Str7, Str8, Str7>>)
           /\ r.model[1] = <<0, 0>>
           /\ r.ev # NoError
           /\ GetReturnCode(r.ev) = 400

\* the text of v before its first "=" (all of v when it has none), and the
\* text after it (empty when it has none)
KeyText(v) ==
    IF \E n \in 1..Len(v) : v[n] = "="
    THEN SubSeq(v, 1, Min({n \in 1..Len(v) : v[n] = "="}) - 1)
    ELSE v

ValueText(v) ==
    IF \E n \in 1..Len(v) : v[n] = "="
    THEN SubSeq(v, Min({n \in 1..Len(v) : v[n] = "="}) + 1, Len(v))
    ELSE << >>

\* what a text stands for as an element of type t, a number or a string
Decodes(t, text) == t = "string" \/ ParseInt(text).ok

Decoded(t, text) == IF t = "string" THEN text ELSE ParseInt(text).v

(* C19: a map field under query or header with explode=true holds, when the *)
(* run returns, one entry per key text of the occurrences of the parameter, *)
(* an occurrence being split at its first "=" into key text and value text  *)
(* (empty without "="), with the value of the last occurrence of the key;   *)
(* when a value text does not decode the map is left unset and an error     *)
(* returned.                                                                *)
ExplodedMapOneEntryPerOccurrence ==
    \A i \in Runs :
        LET r == runs[i]
        IN r.pc = "done" =>
              \A j \in 1..Len(Fields) :
                  /\ Plain(j) /\ Kind(Fields[j].type) = "map"
                  /\ Fields[j].fill.Base \in {"query", "header"}
                  /\ ~Fields[j].fill.FormOnly
                  /\ TagsOf(j).Explode /\ ~TagsOf(j).DeepObject
                  /\ Present(r, j)
                  => IF \A n \in DOMAIN Occurrences(r, j) :
                            Decodes(Elem(Fields[j].type), ValueText(Occurrences(r, j)[n]))
                     THEN /\ ~r.model[j].nil
                          /\ DOMAIN r.model[j].m =
                                {KeyText(Occurrences(r, j)[n]) : n \in DOMAIN Occurrences(r, j)}
                          /\ \A n \in DOMAIN Occurrences(r, j) :
                                (\A l \in DOMAIN Occurrences(r, j) :
                                    l > n => KeyText(Occurrences(r, j)[l])
                                                # KeyText(Occurrences(r, j)[n]))
                                => r.model[j].m[KeyText(Occurrences(r, j)[n])] =
                                      Decoded(Elem(Fields[j].type),
                                              ValueText(Occurrences(r, j)[n]))
                          /\ r.trace[CallOf(r, j)].err = NoError
                     ELSE /\ r.model[j] = NilMap
                          /\ r.ev # NoError

\* the query m=a=7&m=b=8 has been decoded into the map {a: 7, b: 8}
TwoOccurrencesTwoEntries ==
    \E i \in Runs :
        LET r == runs[i]
        IN /\ r.pc = "done"
           /\ Len(Fields) = 1
           /\ Fields[1].type = "map[string]int"
           /\ Fields[1].fill.Base = "query"
           /\ Fields[1].fill.Content = ""
           /\ Fields[1].fill.ExplodeP = <<TRUE>>
           /\ ~Fields[1].fill.DeepObject
           /\ r.req.query = (NameM :> <<StrA7, StrB8>>)
           /\ r.model[1] = [nil |-> FALSE, m |-> (<<"a">> :> 7) @@ (<<"b">> :> 8)]
           /\ r.ev = NoError

\* the cookie's value v can be decoded into a field of type t: a number, or
\* numbers between commas, no more than an array has slots for
CookieDecodes(t, v) ==
    CASE Kind(Deref(t)) = "int" -> ParseInt(v).ok
      [] Kind(Deref(t)) = "slice" -> AllNumbers(Pieces(v, ","))
      [] Kind(Deref(t)) = "array" ->
            AllNumbers(Pieces(v, ",")) /\ Len(Pieces(v, ",")) <= ArrayLen(Deref(t))

(* C20: when a run returns, a cookie field whose cookie the request does    *)
(* not hold has its zero value and its filler has returned no error, and a  *)
(* cookie field whose cookie is held has made the run return an error       *)
(* exactly when the cookie's value cannot be decoded into its type.         *)
MissingCookieIsNoError ==
    \A i \in Runs :
        LET r == runs[i]
        IN r.pc = "done" =>
              \A j \in 1..Len(Fields) :
                  /\ Plain(j) /\ Fields[j].fill.Base = "cookie"
                  /\ Kind(Deref(Fields[j].type)) \in {"int", "slice", "array"}
                  => /\ Invoked(r, "cookie", j)
                     /\ IF ~Present(r, j)
                        THEN /\ r.model[j] = Zero(Fields[j].type)
                             /\ r.trace[CallOf(r, j)].err = NoError
                        ELSE IF CookieDecodes(Fields[j].type, r.req.cookie[ParamName(Fields[j])])
                        THEN r.trace[CallOf(r, j)].err = NoError
                        ELSE /\ r.trace[CallOf(r, j)].err # NoError
                             /\ r.ev # NoError

\* a request with the cookie m=x for a field of type int: an error is returned
MalformedCookieIsError ==
    \E i \in Runs :
        LET r == runs[i]
        IN /\ r.pc = "done"
           /\ Len(Fields) = 1
           /\ Fields[1].type = "int"
           /\ Fields[1].fill.Base = "cookie"
           /\ Fields[1].fill.Content = ""
           /\ r.req.cookie = (NameM :> StrX)
           /\ r.model[1] = 0
           /\ r.ev # NoError
           /\ GetReturnCode(r.ev) = 400

-----------------------------------------------------------------------------
(* The body: which decoder, and when a missing one is noticed *)

\* the content type the body filler of run r looks the decoder up under, in
\* the words of WithDecoder and WithDefaultContentType
ContentTypeOf(r) == IF r.req.ct # "" THEN r.req.ct ELSE options.defaultContentType

\* the calls of body fillers in the trace of r
BodyCalls(r) == {n \in DOMAIN r.trace : r.trace[n].src = "body"}

\* the call n of the trace of r failed for want of a decoder
NoDecoderAt(r, n) ==
    r.trace[n].err # NoError /\ Cause(r.trace[n].err).text = <<"no decoder">>

(* C21 as it is written: a type with a model field does not compile when no *)
(* decoder is registered, and no body filler ever fails at request time     *)
(* because the decoder is missing.                                          *)
MissingBodyDecoderIsCompileError ==
    /\ ModelFields # {} /\ binder.status # "none" /\ options.decoders = {} =>
           binder.status = "error"
    /\ \A i \in Runs : \A n \in BodyCalls(runs[i]) : ~NoDecoderAt(runs[i], n)

(* C21 as the code has it: a missing body decoder is a request-time error.  *)
(* A type with a model field compiles whichever decoders are registered     *)
(* (when its other fields compile), and a body filler fails for want of a   *)
(* decoder exactly when none is registered under the request's content      *)
(* type; the run then returns an error with code 400.                       *)
MissingBodyDecoderIsRequestError ==
    /\ ModelFields # {} /\ binder.status # "none" /\ FieldsCompile =>
           binder.status = "ok"
    /\ \A i \in Runs :
          /\ \A n \in BodyCalls(runs[i]) :
                NoDecoderAt(runs[i], n) <=> ContentTypeOf(runs[i]) \notin options.decoders
          /\ runs[i].pc = "done" /\ BodyCalls(runs[i]) # {}
                /\ ContentTypeOf(runs[i]) \notin options.decoders =>
                 /\ runs[i].ev # NoError
                 /\ GetReturnCode(runs[i].ev) = StatusBadRequest
                 /\ NoDecoderAt(runs[i], Min(Failures(runs[i])))

\* a binder compiled without any decoder rejected a request for that
BodyRejectedForMissingDecoder ==
    \E i \in Runs :
        /\ options.decoders = {}
        /\ binder.status = "ok"
        /\ runs[i].pc = "done"
        /\ runs[i].req.ct = ContentTypeJSON
        /\ \E n \in BodyCalls(runs[i]) : NoDecoderAt(runs[i], n)
        /\ GetReturnCode(runs[i].ev) = StatusBadRequest

(* C22: every call of a body filler looks the decoder up under the value of *)
(* the Content-Type header, and under the default content type exactly when *)
(* the header is empty.  With a decoder registered under that string the    *)
(* field holds what that decoder made of the body (or its zero value and    *)
(* the decoder's error); with none the call returns an error and the field  *)
(* is not written.                                                          *)
BodyDecodedByContentType ==
    \A i \in Runs : \A n \in BodyCalls(runs[i]) :
        LET r == runs[i]
            j == r.trace[n].field
            ct == ContentTypeOf(r)
        IN IF ct \notin options.decoders
           THEN NoDecoderAt(r, n) /\ r.model[j] = Zero("body")
           ELSE IF r.req.body = "good"
           THEN r.trace[n].err = NoError /\ r.model[j] = ct
           ELSE /\ r.trace[n].err # NoError
                /\ Cause(r.trace[n].err).text = <<"decoder">>
                /\ r.model[j] = Zero("body")

\* a request with a Content-Type header decoded by that header's decoder,
\* not by the default's
HeaderContentTypeDecodesBody ==
    \E i \in Runs :
        /\ options.decoders = {ContentTypeJSON, ContentTypeXML}
        /\ options.defaultContentType = ContentTypeXML
        /\ runs[i].pc = "done"
        /\ runs[i].req.ct = ContentTypeJSON
        /\ runs[i].req.body = "good"
        /\ typ = 1
        /\ runs[i].model[1] = ContentTypeJSON

-----------------------------------------------------------------------------
(* The path-variable lookup provider *)

\* the fields of the type tagged path
PathFields ==
    {j \in 1..Len(Fields) : Fields[j].tagged /\ Fields[j].fill.Base = "path"}

\* the calls of path fillers in the trace of r
PathCalls(r) == {n \in DOMAIN r.trace : r.trace[n].src = "path"}

\* the run is past the path step
PastPath(r) ==
    r.pc \in {"header", "query", "form", "deep", "cookie", "return", "done", "panic"}

(* C23: a run calls the function given to WithPathVarsFunction exactly once *)
(* when the type has a path field, not later than its first path filler,   *)
(* and never when the type has none.                                        *)
LookupCalledOncePerRun ==
    \A i \in Runs :
        LET r == runs[i]
        IN /\ r.rvlCalls \in {0, 1}
           /\ PathFields = {} => r.rvlCalls = 0 /\ PathCalls(r) = {}
           /\ PathCalls(r) # {} => r.rvlCalls = 1
           /\ PathFields # {} /\ PastPath(r) =>
                 /\ r.rvlCalls = 1
                 /\ Cardinality(PathCalls(r)) = Cardinality(PathFields)

\* a run of a type with two path fields: two fillers, one call of the lookup
TwoPathFieldsOneLookup ==
    \E i \in Runs :
        /\ Cardinality(PathFields) = 2
        /\ runs[i].pc = "done"
        /\ Cardinality(PathCalls(runs[i])) = 2
        /\ runs[i].rvlCalls = 1

-----------------------------------------------------------------------------
(* Fields the request has nothing for *)

\* the name n occurs in the values: as a key, or as the root of a bracket key
OccursIn(values, n) ==
    \E key \in DOMAIN values :
        key = n \/ (deepObjectRE(key) # << >> /\ deepObjectRE(key)[2] = n)

\* the fields of the type tagged query or header
QueryHeaderFields ==
    {j \in 1..Len(Fields) : Fields[j].tagged /\ Fields[j].fill.Base \in {"query", "header"}}

\* the request of run r has nothing for the query or header field j: no
\* header of its name, no key of its name in the URL query or in the form
\* body, no bracket key under its name
Absent(r, j) ==
    IF Fields[j].fill.Base = "header"
    THEN ParamName(Fields[j]) \notin DOMAIN r.req.header
    ELSE /\ ~OccursIn(r.req.query, ParamName(Fields[j]))
         /\ ~OccursIn(r.req.form.values, ParamName(Fields[j]))

(* C26: at every step of a run, a query or header field the request has     *)
(* nothing for holds its zero value (nil for a pointer, a slice and a map)   *)
(* and has given no error: a query filler is not called for it, and its     *)
(* header filler returns nil.                                                *)
AbsentFieldNotWritten ==
    binder.status = "ok" =>
        \A i \in Runs :
            runs[i].pc # "idle" =>
                \A j \in QueryHeaderFields :
                    Absent(runs[i], j) =>
                        /\ runs[i].model[j] = Zero(Fields[j].type)
                        /\ \A n \in DOMAIN runs[i].trace :
                              runs[i].trace[n].field = j =>
                                  /\ runs[i].trace[n].src = "header"
                                  /\ runs[i].trace[n].err = NoError

\* a request with the slice's parameter and nothing for the map: the slice
\* is filled and the map is nil
OnlySuppliedFieldWritten ==
    \E i \in Runs :
        /\ typ = 3
        /\ runs[i].pc = "done"
        /\ runs[i].req.query = (NameS :> <<Str7>>)
        /\ runs[i].req.form.values = << >>
        /\ runs[i].model[1] = NilMap
        /\ runs[i].model[2] = [nil |-> FALSE, elems |-> <<7>>]
        /\ runs[i].ev = NoError

-----------------------------------------------------------------------------
(* The same request twice *)

(* C28: two runs of the compiled binder that are over and had the same      *)
(* request returned the same model and the same error value.                *)
ResolverDeterministic ==
    \A i \in Runs : \A k \in Runs :
        /\ runs[i].pc = "done" /\ runs[k].pc = "done"
        /\ runs[i].req = runs[k].req
        => /\ runs[i].model = runs[k].model
           /\ runs[i].ev = runs[k].ev

(* What holds of two runs of the same request: the same fillers were called *)
(* and the same keys rejected, with the same results each; the runs differ  *)
(* only in the order of the calls of one step, and both return an error or  *)
(* neither does.                                                            *)
SameCallsAnyOrder ==
    \A i \in Runs : \A k \in Runs :
        /\ runs[i].pc = "done" /\ runs[k].pc = "done"
        /\ runs[i].req = runs[k].req
        => /\ (runs[i].ev = NoError) = (runs[k].ev = NoError)
           /\ {[src |-> c.src, field |-> c.field, key |-> c.key] :
                   c \in InSeq(runs[i].trace)}
                = {[src |-> c.src, field |-> c.field, key |-> c.key] :
                      c \in InSeq(runs[k].trace)}

\* two runs of one request in strict mode: one returned the error of the
\* parameter that does not decode, the other that of the unknown key
SameRequestTwoErrors ==
    \E i \in Runs : \E k \in Runs :
        /\ typ = 3
        /\ options.rejectUnknownQueryParameters
        /\ runs[i].pc = "done" /\ runs[k].pc = "done"
        /\ runs[i].req = runs[k].req
        /\ DOMAIN runs[i].req.query = {NameS, NameZ}
        /\ Cause(runs[i].ev).src = "query" /\ Cause(runs[i].ev).name = NameS
        /\ Cause(runs[k].ev).name = NameZ

-----------------------------------------------------------------------------
(* A parameter in the URL query and in the form body *)

\* the fields tagged query with form=true and without formOnly
FormTrueFields ==
    {j \in 1..Len(Fields) :
        /\ Fields[j].tagged /\ Fields[j].fill.Base = "query"
        /\ Fields[j].fill.Form /\ ~Fields[j].fill.FormOnly}

\* the URL query and the form body of the run's request both supply field j,
\* and the form body is read
SuppliedTwice(r, j) ==
    /\ FormRan(r)
    /\ IF CapOf(j) = "deepObject"
       THEN /\ MembersIn(r.req.query, ParamName(Fields[j])) # {}
            /\ MembersIn(r.req.form.values, ParamName(Fields[j])) # {}
       ELSE /\ ParamName(Fields[j]) \in DOMAIN r.req.query
            /\ ParamName(Fields[j]) \in DOMAIN r.req.form.values

\* the calls of the filler of field j in the trace of r, in order
CallsOf(r, j) == SelectSeq(r.trace, LAMBDA c : c.field = j)

-----------------------------------------------------------------------------
(* Return codes *)

(* C24: the code read back from an error value is the code of its last      *)
(* annotation, whatever wrappers were put around it since; annotating the   *)
(* value with any code c and wrapping the result gives c; a nil error stays *)
(* nil under ReturnCode; a value without an annotation gives 500.           *)
ReturnCodeRoundTrip ==
    /\ chain.code # 0 => chain.err # NoError /\ GetReturnCode(chain.err) = chain.code
    /\ chain.code = 0 => GetReturnCode(chain.err) = StatusInternalServerError
    /\ \A c \in Codes :
          /\ (ReturnCode(chain.err, c) = NoError) = (chain.err = NoError)
          /\ chain.err # NoError =>
                /\ GetReturnCode(ReturnCode(chain.err, c)) = c
                /\ GetReturnCode(Wrapf(ReturnCode(chain.err, c), "", Empty, Empty)) = c
                /\ GetReturnCode(Wrapf(Wrapf(ReturnCode(chain.err, c), "", Empty, Empty),
                                       "", Empty, Empty)) = c

\* an error annotated with 400, then with 303, then wrapped: it reads 303
WrappedAnnotationFound ==
    /\ Len(chain.err) = 4
    /\ chain.err[1].k = "wrap"
    /\ chain.err[2].k = "returnCode" /\ chain.err[2].code = 303
    /\ chain.err[3].k = "returnCode" /\ chain.err[3].code = 400
    /\ chain.err[4].k = "errorf"
    /\ GetReturnCode(chain.err) = 303

-----------------------------------------------------------------------------
(* C25: scalars round-trip through their textual form                       *)

\* the text the request of run r supplies for the field, once
SuppliedText(r) == Occurrences(r, 1)[1]

\* what a field of type t holds when it holds the value v
Held(t, v) == IF Kind(t) = "ptr" THEN [nil |-> FALSE, p |-> v] ELSE v

FinishedScalar(r) == typ \in ScalarTypeIds /\ r.pc = "done"

-----------------------------------------------------------------------------
(* C27: the deferred writer holds everything back until Flush               *)

NothingReached ==
    /\ tw.buffer = << >>
    /\ tw.code = 0
    /\ tw.header = dw.created
    /\ ~Done(dw)

AllReached ==
    /\ tw.buffer = Body(dw).body
    /\ Body(dw).code # 0 => tw.code = Body(dw).code
    /\ tw.header = dw.header
    /\ Done(dw)

HeaderReachedWithoutFlush ==
    /\ dw.flushed = "no"
    /\ dw.underlying
    /\ tw.header # dw.created
    /\ dw.buffer # << >>
    /\ tw.buffer = << >>

-----------------------------------------------------------------------------
(* C29: every call of a capability finds it                                 *)

Caps == {"single", "multi", "deepObject"}

\* a place where a closure calls the unpacker u: the line, the capabilities
\* the code at that line can call, and the one u has
Site(line, need, u) == [line |-> line, need |-> need, have |-> u.cap]

\* the calls the closures of getUnpacker(t, base, tags, opts) make of the
\* unpackers built for the pointee, the elements, the keys and the members
RECURSIVE NestedCalls(_, _, _, _)
NestedCalls(t, base, tags, opts) ==
    IF getUnpacker(t, base, tags, opts).err # NoError THEN {}
    ELSE IF tags.Content # ""
    THEN IF tags.Explode /\ base \in {"query", "header"} /\ Kind(t) \in {"map", "slice"}
         THEN {Site(967, {"single"},
                    getUnpacker(Elem(t), base, WithoutExplode(tags), opts))}
                \cup NestedCalls(Elem(t), base, WithoutExplode(tags), opts)
                \cup (IF Kind(t) = "map"
                      THEN {Site(993, {"single"},
                                 getUnpacker(Key(t), base,
                                     WithoutDeepObject(WithoutContent(WithoutExplode(tags))),
                                     opts))}
                      ELSE {})
         ELSE {}
    ELSE CASE Kind(t) = "ptr" ->
                {Site(762, Caps, getUnpacker(Elem(t), base, tags, opts))}
                    \cup NestedCalls(Elem(t), base, tags, opts)
           [] Kind(t) \in ScalarKinds -> {}
           [] Kind(t) \in {"slice", "array"} ->
                {Site(823, {"single"},
                      getUnpacker(Elem(t), base, WithoutExplode(tags), opts))}
                    \cup NestedCalls(Elem(t), base, WithoutExplode(tags), opts)
           [] Kind(t) = "map" ->
                {Site(888, {"single"},
                      getUnpacker(Key(t), base, WithoutDeepObject(WithoutExplode(tags)),
                                  opts)),
                 Site(893, IF tags.DeepObject THEN {"single", "multi"} ELSE {"single"},
                      getUnpacker(Elem(t), base,
                                  IF tags.DeepObject THEN WithoutDeepObject(tags)
                                  ELSE WithoutExplode(tags), opts))}
                    \cup NestedCalls(Elem(t), base,
                                     IF tags.DeepObject THEN WithoutDeepObject(tags)
                                     ELSE WithoutExplode(tags), opts)
           [] Kind(t) = "struct" ->
                UNION {{Site(IF tags.DeepObject THEN 632 ELSE 614,
                             IF tags.DeepObject THEN {"single", "multi"} ELSE {"single"},
                             getUnpacker(Members(t)[k], base, memberTags(t, k, tags),
                                         opts))}
                          \cup NestedCalls(Members(t)[k], base, memberTags(t, k, tags),
                                           opts) :
                       k \in DOMAIN Members(t)}

\* lines 323-411: the call the filler of field j makes of the field's unpacker
FillerCall(j) ==
    LET u == getUnpacker(Fields[j].type, TagsOf(j).Base, TagsOf(j), options)
    IN CASE TagsOf(j).Base = "path" -> Site(327, {"single"}, u)
         [] TagsOf(j).Base = "header" -> Site(332, {"single", "multi"}, u)
         [] TagsOf(j).Base = "query" -> Site(359, Caps, u)
         [] TagsOf(j).Base = "cookie" -> Site(408, {"single"}, u)

DecodedFields ==
    {j \in 1..Len(Fields) :
        Fields[j].tagged /\ TagsOf(j).Base \in {"path", "header", "query", "cookie"}}

CallsOfField(j) ==
    {FillerCall(j)}
        \cup NestedCalls(Fields[j].type, TagsOf(j).Base, TagsOf(j), options)

\* C29: in a binder that compiled, the unpacker of every field and every
\* unpacker nested in it has one of the capabilities single, multi and
\* deepObject, multi only under the bases query and header and deepObject
\* only under query, and every call a filler or a closure makes of an
\* unpacker (the path and cookie fillers' single, the elements of slices and
\* arrays, the keys and values of maps, the members of structs) is of a
\* capability that unpacker has
CapabilityAlwaysFound ==
    binder.status = "ok" =>
        \A j \in DecodedFields :
            \A c \in CallsOfField(j) :
                /\ c.have \in Caps
                /\ c.have = "multi" => TagsOf(j).Base \in {"query", "header"}
                /\ c.have = "deepObject" => TagsOf(j).Base = "query"
                /\ c.have \in c.need

\* a deep object of a map of slices has been decoded: the closure found the
\* multi unpacker of the elements
ElementMultiFound ==
    /\ binder.status = "ok"
    /\ Fields[1].type = "map[string][]int"
    /\ Site(893, {"single", "multi"}, Unpack("multi")) \in CallsOfField(1)
    /\ runs[1].pc = "done"
    /\ runs[1].ev = NoError
    /\ ~runs[1].model[1].nil

====
